---- MODULE Spec2Model ----
(***************************************************************************)
(* A model of package profile (github.com/mmcloughlin/profile): the        *)
(* profiling session Profile, its methods, the flag and environment        *)
(* configuration, the start and stop loops and the interrupt watcher.      *)
(*                                                                         *)
(* A Go string is a sequence of chunks.  The chunks "-", "=" and "," are   *)
(* the characters themselves; every other chunk is a word, a run of one    *)
(* or more characters none of which is '-', '=' or ','.  The empty string  *)
(* is << >>.  "goroutineprofile" is always cut goroutine|profile, as       *)
(* lookup.SetFlags builds it.                                              *)
(***************************************************************************)
EXTENDS Integers, Sequences, FiniteSets, TLC

VARIABLES
    p,          \* the Profile: methods, noshutdownhook, envvar, running
    fs,         \* the caller's flag.FlagSet: formal, actual, parsed, err
    environ,    \* what os.Getenv(p.envvar) returns
    rt,         \* the runtime's profiling globals
    disk,       \* the files of the working directory and the open handles
    log,        \* the lines given to p.log
    calls,      \* history: the method Start and Stop calls made
    stderr,     \* what the environment flag set printed
    pc,         \* the caller's position in Profile.Start / Profile.Stop
    watchers,   \* the goroutines spawned by the shutdown hook
    exit,       \* "none", or how the process ended
    nstarts,    \* Profile.Start calls made
    nfaults,    \* failures injected
    nints       \* interrupts delivered

vars == << p, fs, environ, rt, disk, log, calls, stderr, pc, watchers, exit,
           nstarts, nfaults, nints >>

(***************************************************************************)
(* Bounds.                                                                 *)
(***************************************************************************)
MaxStarts == 1
MaxFaults == 2
MaxArgs == 2
MaxEntries == 2
MaxInterrupts == 1
MaxRestarts == 2
MaxOptions == 2

(***************************************************************************)
(* Program constants.                                                      *)
(***************************************************************************)
MemRateFlagDefault == 0
BlockRateFlagDefault == 1
MutexFractionFlagDefault == 1
BlockRateOption == 1
MutexRateOption == 1
BlockRateOff == 0
MutexFractionOff == 0
ExitOK == 0

\* runtime.MemProfileRate before the package touches it (the runtime's default)
RuntimeMemRates == { 524288 }

EmptyString == << >>

\* The runtime's profile registry (runtime/pprof.Lookup).
PprofProfiles == { "goroutine", "threadcreate", "heap", "allocs", "block", "mutex" }

(***************************************************************************)
(* The methods: one record per method object, its index in p.methods its   *)
(* identity.  f is the io.WriteCloser field of cpu and tracer.             *)
(***************************************************************************)
method(type, name, long, filename, rate) ==
    [ type |-> type, name |-> name, long |-> long, filename |-> << filename >>,
      rate |-> rate, f |-> "nil", prevrate |-> 0 ]

addmethod(q, m) == [ q EXCEPT !.methods = Append(@, m) ]

CPUProfile(q) == addmethod(q, method("cpu", "cpu", "", "cpu.pprof", 0))

MemProfile(q) == addmethod(q, method("mem", "mem", "", "mem.pprof", 0))

GoroutineProfile(q) ==
    addmethod(q, method("lookup", "goroutine", "running goroutine", "goroutine.pprof", 0))

ThreadcreationProfile(q) ==
    addmethod(q, method("lookup", "threadcreate", "thread creation", "threadcreate.pprof", 0))

BlockProfile(q) == addmethod(q, method("block", "block", "", "block.pprof", BlockRateOption))

MutexProfile(q) == addmethod(q, method("mutex", "mutex", "", "mutex.pprof", MutexRateOption))

TraceProfile(q) == addmethod(q, method("tracer", "trace", "", "trace.out", 0))

NoShutdownHook(q) == [ q EXCEPT !.noshutdownhook = TRUE ]

ConfigEnvVar(key, q) == [ q EXCEPT !.envvar = key ]

\* An option is named by a string; ConfigEnvVar's key is fixed to PROFILE.
ApplyOption(o, q) ==
    CASE o = "CPUProfile" -> CPUProfile(q)
      [] o = "MemProfile" -> MemProfile(q)
      [] o = "GoroutineProfile" -> GoroutineProfile(q)
      [] o = "ThreadcreationProfile" -> ThreadcreationProfile(q)
      [] o = "BlockProfile" -> BlockProfile(q)
      [] o = "MutexProfile" -> MutexProfile(q)
      [] o = "TraceProfile" -> TraceProfile(q)
      [] o = "NoShutdownHook" -> NoShutdownHook(q)
      [] o = "ConfigEnvVar" -> ConfigEnvVar(<< "PROFILE" >>, q)

RECURSIVE Configure(_, _)
Configure(q, options) ==
    IF options = << >> THEN q
    ELSE IF Head(options) = "AllProfiles"
         THEN Configure(Configure(q, << "CPUProfile", "MemProfile", "GoroutineProfile",
                                        "ThreadcreationProfile", "BlockProfile",
                                        "MutexProfile", "TraceProfile" >>),
                        Tail(options))
         ELSE Configure(ApplyOption(Head(options), q), Tail(options))

AllProfiles(q) == Configure(q, << "AllProfiles" >>)

New(options) ==
    Configure([ methods |-> << >>, noshutdownhook |-> FALSE, envvar |-> EmptyString,
                running |-> << >> ], options)

\* A setdefaults that adds nothing.
setdefaults_None(q) == q

\* A setdefaults that adds the CPU method whatever the session holds.
setdefaults_Always(q) == Configure(q, << "CPUProfile" >>)

setdefaults(q) == IF Len(q.methods) = 0 THEN Configure(q, << "CPUProfile" >>) ELSE q

(***************************************************************************)
(* Package flag.  A flag set's formal flags are records: the flag's name,  *)
(* the method and field its value is bound to, its kind and the            *)
(* placeholder flag.UnquoteUsage finds in its usage text.  A registration  *)
(* state st is [methods, formal, panic].                                   *)
(***************************************************************************)
NewFlagSet == [ formal |-> {}, actual |-> {}, parsed |-> FALSE, err |-> "none" ]

\* A flag set on which a redefined flag silently replaces the earlier one.
Var_Replace(st, i, field, name, def, kind, ph) ==
    IF st.panic THEN st
    ELSE [ st EXCEPT !.methods[i][field] = def,
                     !.formal = { r \in @ : r.name # name } \cup
                        { [ name |-> name, m |-> i, field |-> field, kind |-> kind,
                            ph |-> ph ] } ]

\* A registration that leaves the bound field as it is.
Var_KeepField(st, i, field, name, def, kind, ph) ==
    IF st.panic THEN st
    ELSE IF \E r \in st.formal : r.name = name
         THEN [ st EXCEPT !.panic = TRUE ]
         ELSE [ st EXCEPT !.formal = @ \cup
                    { [ name |-> name, m |-> i, field |-> field, kind |-> kind,
                        ph |-> ph ] } ]

\* f.StringVar / f.IntVar: the bound field takes the default, then f.Var
\* panics if the name is already defined on f.
Var(st, i, field, name, def, kind, ph) ==
    IF st.panic THEN st
    ELSE LET set == [ st EXCEPT !.methods[i][field] = def ]
         IN  IF \E r \in st.formal : r.name = name
             THEN [ set EXCEPT !.panic = TRUE ]
             ELSE [ set EXCEPT !.formal = @ \cup
                        { [ name |-> name, m |-> i, field |-> field, kind |-> kind,
                            ph |-> ph ] } ]

\* A cpuprofile flag whose default is the filename the method already has.
cpuSetFlags_KeepFilename(st, i) ==
    Var(st, i, "filename", << "cpuprofile" >>, st.methods[i].filename, "string", "file")

cpuSetFlags(st, i) ==
    Var(st, i, "filename", << "cpuprofile" >>, EmptyString, "string", "file")

memSetFlags(st, i) ==
    Var(Var(st, i, "filename", << "memprofile" >>, EmptyString, "string", "file"),
        i, "rate", << "memprofilerate" >>, MemRateFlagDefault, "int", "rate")

lookupSetFlags(st, i) ==
    Var(st, i, "filename", << st.methods[i].name, "profile" >>, EmptyString, "string", "file")

blockSetFlags(st, i) ==
    Var(Var(st, i, "filename", << "blockprofile" >>, EmptyString, "string", "file"),
        i, "rate", << "blockprofilerate" >>, BlockRateFlagDefault, "int", "rate")

mutexSetFlags(st, i) ==
    Var(Var(st, i, "filename", << "mutexprofile" >>, EmptyString, "string", "string"),
        i, "rate", << "mutexprofilefraction" >>, MutexFractionFlagDefault, "int", "int")

tracerSetFlags(st, i) ==
    Var(st, i, "filename", << "trace" >>, EmptyString, "string", "file")

methodSetFlags(st, i) ==
    LET t == st.methods[i].type
    IN  CASE t = "cpu" -> cpuSetFlags(st, i)
          [] t = "mem" -> memSetFlags(st, i)
          [] t = "lookup" -> lookupSetFlags(st, i)
          [] t = "block" -> blockSetFlags(st, i)
          [] t = "mutex" -> mutexSetFlags(st, i)
          [] t = "tracer" -> tracerSetFlags(st, i)

RECURSIVE SetFlagsFrom(_, _)
SetFlagsFrom(st, i) ==
    IF i > Len(st.methods) \/ st.panic THEN st
    ELSE SetFlagsFrom(methodSetFlags(st, i), i + 1)

\* Profile.SetFlags(f) on the profile q and the formal flags of f.
SetFlags(q, formal) ==
    LET d == setdefaults(q)
        st == SetFlagsFrom([ methods |-> d.methods, formal |-> formal, panic |-> FALSE ], 1)
    IN  [ q |-> [ d EXCEPT !.methods = st.methods ], formal |-> st.formal,
          panic |-> st.panic ]

\* strconv.ParseInt on the chunks the model uses: a digit word, or a
\* minus sign and a digit word.
DigitWords == { "0", "1", "2" }

DigitValue(w) == CASE w = "0" -> 0 [] w = "1" -> 1 [] w = "2" -> 2

IsInt(v) ==
    \/ Len(v) = 1 /\ v[1] \in DigitWords
    \/ Len(v) = 2 /\ v[1] = "-" /\ v[2] \in DigitWords

IntValue(v) == IF Len(v) = 1 THEN DigitValue(v[1]) ELSE 0 - DigitValue(v[2])

\* The place of the first chunk c of s at or after place i, 0 if none.
RECURSIVE Index(_, _, _)
Index(s, c, i) ==
    IF i > Len(s) THEN 0
    ELSE IF s[i] = c THEN i ELSE Index(s, c, i + 1)

\* FlagSet.parseOne: one step of flag parsing on [methods, args].  seen says
\* a flag was consumed; err is "none" or the failure.
parseOne(ms, formal, args) ==
    LET stop(e, rest) == [ seen |-> FALSE, err |-> e, methods |-> ms, args |-> rest,
                           name |-> EmptyString ]
    IN
    IF Len(args) = 0 THEN stop("none", args)
    ELSE
    LET s == Head(args) IN
    IF Len(s) < 2 \/ s[1] # "-" THEN stop("none", args)
    ELSE
    LET numMinuses == IF s[2] = "-" THEN 2 ELSE 1 IN
    IF numMinuses = 2 /\ Len(s) = 2 THEN stop("none", Tail(args))
    ELSE
    LET name0 == SubSeq(s, numMinuses + 1, Len(s)) IN
    IF Len(name0) = 0 \/ name0[1] = "-" \/ name0[1] = "=" THEN stop("syntax", args)
    ELSE
    LET rest == Tail(args)
        eq == Index(name0, "=", 2)
        hasValue0 == eq # 0
        name == IF hasValue0 THEN SubSeq(name0, 1, eq - 1) ELSE name0
        value0 == IF hasValue0 THEN SubSeq(name0, eq + 1, Len(name0)) ELSE EmptyString
    IN
    IF ~ \E r \in formal : r.name = name
    THEN IF name = << "help" >> \/ name = << "h" >>
         THEN stop("help", rest)
         ELSE stop("undefined", rest)
    ELSE
    LET flag == CHOOSE r \in formal : r.name = name
        takeNext == ~ hasValue0 /\ Len(rest) > 0
        hasValue == hasValue0 \/ takeNext
        value == IF takeNext THEN Head(rest) ELSE value0
        rest2 == IF takeNext THEN Tail(rest) ELSE rest
    IN
    IF ~ hasValue THEN stop("needsarg", rest2)
    ELSE IF flag.kind = "int" /\ ~ IsInt(value) THEN stop("invalid", rest2)
    ELSE [ seen |-> TRUE, err |-> "none", args |-> rest2, name |-> name,
           methods |-> [ ms EXCEPT ![flag.m][flag.field] =
                            IF flag.kind = "int" THEN IntValue(value) ELSE value ] ]

\* FlagSet.Parse up to its error handling: parseOne until it sees no flag.
\* actual holds the names of the flags that were set.
RECURSIVE Parse(_, _, _)
Parse(ms, formal, args) ==
    LET r == parseOne(ms, formal, args)
    IN  IF r.seen
        THEN [ Parse(r.methods, formal, r.args) EXCEPT !.actual = @ \cup { r.name } ]
        ELSE [ methods |-> r.methods, err |-> r.err, args |-> r.args, actual |-> {} ]


(***************************************************************************)
(* The operating system and the runtime.  disk.files holds one record per  *)
(* file: its path and whether profile data was written to it; disk.open    *)
(* counts the open handles.  rt.cpu and rt.trace are << >> when off and    *)
(* << path >> while a profile is being written to the file at path.        *)
(* A world W is [m, rt, disk, err, panic]: the method acted on, the        *)
(* globals, and the error the call returns ("none": nil).  fl names the    *)
(* failure the environment injects into the call, "none" for none.         *)
(***************************************************************************)
Create(d, path) ==
    [ d EXCEPT !.files = { x \in @ : x.path # path } \cup { [ path |-> path, data |-> FALSE ] },
               !.open = @ + 1 ]

WriteTo(d, path) ==
    [ d EXCEPT !.files = { x \in @ : x.path # path } \cup { [ path |-> path, data |-> TRUE ] } ]

Close(d) == [ d EXCEPT !.open = @ - 1 ]

\* os.Create fails on the empty path, or when the environment makes it fail.
CreateFails(path, fl) == path = EmptyString \/ fl = "create"

Return(W, e) == [ W EXCEPT !.err = e ]

cpuEnabled(m) == m.filename # EmptyString

cpuStart(W, fl) ==
    IF CreateFails(W.m.filename, fl) THEN Return(W, "create")
    ELSE LET W1 == [ W EXCEPT !.disk = Create(@, W.m.filename) ]
         IN  IF W.rt.cpu # << >> \/ fl = "runtime"
             THEN Return([ W1 EXCEPT !.disk = Close(@) ], "runtime")
             ELSE Return([ W1 EXCEPT !.rt.cpu = << W.m.filename >>, !.m.f = "open" ], "none")

\* c.f.Close(): a nil f panics, a closed one returns os.ErrClosed.
CloseHandle(W, fl) ==
    IF W.m.f = "nil" THEN [ W EXCEPT !.panic = TRUE ]
    ELSE IF W.m.f = "closed" THEN Return(W, "closed")
    ELSE Return([ W EXCEPT !.m.f = "closed", !.disk = Close(@) ],
                IF fl = "close" THEN "close" ELSE "none")

cpuStop(W, fl) ==
    LET W1 == IF W.rt.cpu = << >> THEN W
              ELSE [ W EXCEPT !.disk = WriteTo(@, W.rt.cpu[1]), !.rt.cpu = << >> ]
    IN  CloseHandle(W1, fl)

\* writeprofile(name, filename): the deferred close reports its error only
\* when the write succeeded.
writeprofile(name, filename, W, fl) ==
    IF name \notin PprofProfiles THEN Return(W, "unknown")
    ELSE IF CreateFails(filename, fl) THEN Return(W, "create")
    ELSE LET created == Create(W.disk, filename)
             werr == fl \in { "write", "writeclose" }
             cerr == fl \in { "close", "writeclose" }
             written == IF werr THEN created ELSE WriteTo(created, filename)
         IN  Return([ W EXCEPT !.disk = Close(written) ],
                    IF werr THEN "write" ELSE IF cerr THEN "close" ELSE "none")

\* A memory method that is enabled only with a positive rate.
memEnabled_RateGated(m) == m.filename # EmptyString /\ m.rate > 0

memEnabled(m) == m.filename # EmptyString

memStart(W, fl) ==
    LET W1 == [ W EXCEPT !.m.prevrate = W.rt.MemProfileRate ]
    IN  Return(IF W.m.rate > 0 THEN [ W1 EXCEPT !.rt.MemProfileRate = W.m.rate ] ELSE W1,
               "none")

\* A memory Stop that resets the rate without writing the profile.
memStop_NoWrite(W, fl) ==
    [ Return(W, "none") EXCEPT !.rt.MemProfileRate = W.m.prevrate ]

\* A memory Stop that restores the rate only when the profile was written.
memStop_RestoreOnSuccess(W, fl) ==
    LET W1 == writeprofile("allocs", W.m.filename, W, fl)
    IN  IF W1.err = "none" THEN [ W1 EXCEPT !.rt.MemProfileRate = W.m.prevrate ] ELSE W1

memStop(W, fl) ==
    LET W1 == writeprofile("allocs", W.m.filename, W, fl)
    IN  [ W1 EXCEPT !.rt.MemProfileRate = W.m.prevrate ]

lookupEnabled(m) == m.filename # EmptyString

lookupStart(W, fl) == Return(W, "none")

lookupStop(W, fl) == writeprofile(W.m.name, W.m.filename, W, fl)

blockEnabled(m) == m.filename # EmptyString /\ m.rate > 0

blockStart(W, fl) == Return([ W EXCEPT !.rt.blockrate = W.m.rate ], "none")

\* A block Stop that disables block profiling only when the profile was
\* written.
blockStop_OffOnSuccess(W, fl) ==
    LET W1 == writeprofile("block", W.m.filename, W, fl)
    IN  IF W1.err = "none" THEN [ W1 EXCEPT !.rt.blockrate = BlockRateOff ] ELSE W1

blockStop(W, fl) ==
    LET W1 == writeprofile("block", W.m.filename, W, fl)
    IN  [ W1 EXCEPT !.rt.blockrate = BlockRateOff ]

mutexEnabled(m) == m.filename # EmptyString /\ m.rate > 0

mutexStart(W, fl) == Return([ W EXCEPT !.rt.mutexfraction = W.m.rate ], "none")

mutexStop(W, fl) ==
    LET W1 == writeprofile("mutex", W.m.filename, W, fl)
    IN  [ W1 EXCEPT !.rt.mutexfraction = MutexFractionOff ]

tracerEnabled(m) == m.filename # EmptyString

tracerStart(W, fl) ==
    IF CreateFails(W.m.filename, fl) THEN Return(W, "create")
    ELSE LET W1 == [ W EXCEPT !.disk = Create(@, W.m.filename) ]
         IN  IF W.rt.trace # << >> \/ fl = "runtime"
             THEN Return([ W1 EXCEPT !.disk = Close(@) ], "runtime")
             ELSE Return([ W1 EXCEPT !.rt.trace = << W.m.filename >>, !.m.f = "open" ], "none")

tracerStop(W, fl) ==
    LET W1 == IF W.rt.trace = << >> THEN W
              ELSE [ W EXCEPT !.disk = WriteTo(@, W.rt.trace[1]), !.rt.trace = << >> ]
    IN  CloseHandle(W1, fl)

(***************************************************************************)
(* The exported methods CPU and Mem of method.go, which a Runner holds in  *)
(* its Methods.  Their records have the types "CPU" and "Mem".             *)
(***************************************************************************)
\* &CPU{} and &Mem{}: no filename, no rate.
CPU == [ method("CPU", "cpu", "", "", 0) EXCEPT !.filename = EmptyString ]

Mem == [ method("Mem", "mem", "", "", 0) EXCEPT !.filename = EmptyString ]

CPUEnabled(m) == m.filename # EmptyString

\* CPU.Start keeps the file in c.f as soon as it is created, and returns
\* the error of pprof.StartCPUProfile as it is.
CPUStart(W, fl) ==
    IF CreateFails(W.m.filename, fl) THEN Return(W, "create")
    ELSE LET W1 == [ W EXCEPT !.disk = Create(@, W.m.filename), !.m.f = "open" ]
         IN  IF W.rt.cpu # << >> \/ fl = "runtime"
             THEN Return(W1, "runtime")
             ELSE Return([ W1 EXCEPT !.rt.cpu = << W.m.filename >> ], "none")

CPUStop(W, fl) ==
    LET W1 == IF W.rt.cpu = << >> THEN W
              ELSE [ W EXCEPT !.disk = WriteTo(@, W.rt.cpu[1]), !.rt.cpu = << >> ]
    IN  CloseHandle(W1, fl)

\* writeprofile of method.go: the file is created first, and is closed
\* only on the path where the write succeeded.
writeprofileMethodGo(name, filename, W, fl) ==
    IF CreateFails(filename, fl) THEN Return(W, "create")
    ELSE LET created == Create(W.disk, filename)
             werr == fl \in { "write", "writeclose" }
             cerr == fl \in { "close", "writeclose" }
         IN  IF name \notin PprofProfiles THEN Return([ W EXCEPT !.disk = created ], "unknown")
             ELSE IF werr THEN Return([ W EXCEPT !.disk = created ], "write")
             ELSE Return([ W EXCEPT !.disk = Close(WriteTo(created, filename)) ],
                         IF cerr THEN "close" ELSE "none")

MemEnabled(m) == m.filename # EmptyString

MemStart(W, fl) ==
    LET W1 == [ W EXCEPT !.m.prevrate = W.rt.MemProfileRate ]
    IN  Return(IF W.m.rate > 0 THEN [ W1 EXCEPT !.rt.MemProfileRate = W.m.rate ] ELSE W1,
               "none")

MemStop(W, fl) ==
    LET W1 == writeprofileMethodGo("allocs", W.m.filename, W, fl)
    IN  [ W1 EXCEPT !.rt.MemProfileRate = W.m.prevrate ]

\* A flag registration of a Runner's method.  st holds the methods, the
\* formal flags of the flag set f passed to SetFlags and those of the
\* process-wide flag.CommandLine; st.global says that f is
\* flag.CommandLine itself.  onF: the flag is declared on f, otherwise
\* through the package-level functions of flag, on flag.CommandLine.
VarOn(st, onF, i, field, name, def, kind, ph) ==
    LET r == Var([ methods |-> st.methods,
                   formal |-> IF onF THEN st.f ELSE st.commandline,
                   panic |-> st.panic ], i, field, name, def, kind, ph)
    IN  [ st EXCEPT !.methods = r.methods,
                    !.panic = r.panic,
                    !.f = IF onF \/ st.global THEN r.formal ELSE @,
                    !.commandline = IF ~ onF \/ st.global THEN r.formal ELSE @ ]

\* f.StringVar(&c.filename, "cpuprofile", ...)
CPUSetFlags(st, i) ==
    VarOn(st, TRUE, i, "filename", << "cpuprofile" >>, EmptyString, "string", "file")

\* flag.StringVar(&m.filename, "memprofile", ...) and
\* flag.IntVar(&m.rate, "memprofilerate", ...): not on f.
MemSetFlags(st, i) ==
    VarOn(VarOn(st, FALSE, i, "filename", << "memprofile" >>, EmptyString, "string", "file"),
          FALSE, i, "rate", << "memprofilerate" >>, MemRateFlagDefault, "int", "rate")

RECURSIVE RunnerSetFlagsFrom(_, _)
RunnerSetFlagsFrom(st, i) ==
    IF i > Len(st.methods) \/ st.panic THEN st
    ELSE RunnerSetFlagsFrom(IF st.methods[i].type = "CPU" THEN CPUSetFlags(st, i)
                            ELSE MemSetFlags(st, i), i + 1)

\* Runner.SetFlags(f)
RunnerSetFlags(r, f, commandline, global) ==
    RunnerSetFlagsFrom([ methods |-> r.methods, f |-> f, commandline |-> commandline,
                         global |-> global, panic |-> FALSE ], 1)

\* Dispatch through the method interface.
Enabled(m) ==
    CASE m.type = "cpu" -> cpuEnabled(m)
      [] m.type = "mem" -> memEnabled(m)
      [] m.type = "lookup" -> lookupEnabled(m)
      [] m.type = "block" -> blockEnabled(m)
      [] m.type = "mutex" -> mutexEnabled(m)
      [] m.type = "tracer" -> tracerEnabled(m)
      [] m.type = "CPU" -> CPUEnabled(m)
      [] m.type = "Mem" -> MemEnabled(m)

methodStart(W, fl) ==
    CASE W.m.type = "cpu" -> cpuStart(W, fl)
      [] W.m.type = "mem" -> memStart(W, fl)
      [] W.m.type = "lookup" -> lookupStart(W, fl)
      [] W.m.type = "block" -> blockStart(W, fl)
      [] W.m.type = "mutex" -> mutexStart(W, fl)
      [] W.m.type = "tracer" -> tracerStart(W, fl)
      [] W.m.type = "CPU" -> CPUStart(W, fl)
      [] W.m.type = "Mem" -> MemStart(W, fl)

methodStop(W, fl) ==
    CASE W.m.type = "cpu" -> cpuStop(W, fl)
      [] W.m.type = "mem" -> memStop(W, fl)
      [] W.m.type = "lookup" -> lookupStop(W, fl)
      [] W.m.type = "block" -> blockStop(W, fl)
      [] W.m.type = "mutex" -> mutexStop(W, fl)
      [] W.m.type = "tracer" -> tracerStop(W, fl)
      [] W.m.type = "CPU" -> CPUStop(W, fl)
      [] W.m.type = "Mem" -> MemStop(W, fl)

\* The failures the environment can inject into a method's Start and Stop.
StartFaults(m) ==
    IF m.type \in { "cpu", "tracer", "CPU" } THEN { "none", "create", "runtime" }
    ELSE { "none" }

StopFaults(m) ==
    IF m.type \in { "cpu", "tracer", "CPU" } THEN { "none", "close" }
    ELSE { "none", "create", "write", "close", "writeclose" }

World(m) == [ m |-> m, rt |-> rt, disk |-> disk, err |-> "none", panic |-> FALSE ]


(***************************************************************************)
(* Profile.config: the environment string parsed as flags.                 *)
(***************************************************************************)
\* strings.Split(s, ","): always at least one piece, the whole of s when it
\* holds no comma.
RECURSIVE Split(_)
Split(s) ==
    LET c == Index(s, ",", 1)
    IN  IF c = 0 THEN << s >>
        ELSE << SubSeq(s, 1, c - 1) >> \o Split(SubSeq(s, c + 1, Len(s)))

\* Arguments without the "-" that makes them flags.
ArgsOf_NoDash(cfg) == Split(cfg)

\* Arguments for the pieces that are not empty only.
ArgsOf_DropEmpty(cfg) ==
    LET pieces == SelectSeq(Split(cfg), LAMBDA e : e # EmptyString)
    IN  [ k \in 1 .. Len(pieces) |-> << "-" >> \o pieces[k] ]

\* args = append(args, "-"+arg) for each piece.
ArgsOf(cfg) == LET pieces == Split(cfg) IN [ k \in 1 .. Len(pieces) |-> << "-" >> \o pieces[k] ]

\* f.VisitAll visits the flags in lexicographical order of their names.
FlagOrder ==
    << << "blockprofile" >>, << "blockprofilerate" >>, << "cpuprofile" >>,
       << "goroutine", "profile" >>, << "memprofile" >>, << "memprofilerate" >>,
       << "mutexprofile" >>, << "mutexprofilefraction" >>,
       << "threadcreate", "profile" >>, << "trace" >> >>

\* The custom f.Usage: one name=placeholder entry per registered flag.
Usage(formal) ==
    LET names == SelectSeq(FlagOrder, LAMBDA n : \E r \in formal : r.name = n)
    IN  [ k \in 1 .. Len(names) |->
            [ name |-> names[k], value |-> (CHOOSE r \in formal : r.name = names[k]).ph ] ]

NoExit == [ by |-> "none", code |-> 0 ]

\* A Start that leaves the session as the options made it.
config_Skip(q, cfg) == [ q |-> q, exit |-> NoExit, out |-> << >> ]

\* A config whose flag set returns a parse error instead of exiting.
config_ContinueOnError(q, cfg) ==
    LET reg == SetFlags(q, NewFlagSet.formal)
        r == Parse(reg.q.methods, reg.formal, ArgsOf(cfg))
    IN  [ q |-> [ reg.q EXCEPT !.methods = r.methods ],
          exit |-> IF reg.panic THEN [ by |-> "panic", code |-> 2 ] ELSE NoExit,
          out |-> IF reg.panic \/ r.err = "none" THEN << >>
                  ELSE << [ name |-> << "error" >>, value |-> r.err ] >> \o Usage(reg.formal) ]

\* ExitOnError: the error is printed, then the usage (for -help the usage
\* alone), and the process exits: 0 for -help, 2 otherwise.
config(q, cfg) ==
    LET args == ArgsOf(cfg)
        reg == SetFlags(q, NewFlagSet.formal)
        r == Parse(reg.q.methods, reg.formal, args)
        done == [ reg.q EXCEPT !.methods = r.methods ]
    IN  IF reg.panic
        THEN [ q |-> reg.q, exit |-> [ by |-> "panic", code |-> 2 ], out |-> << >> ]
        ELSE IF r.err = "none"
        THEN [ q |-> done, exit |-> NoExit, out |-> << >> ]
        ELSE [ q |-> done,
               exit |-> [ by |-> "flag", code |-> IF r.err = "help" THEN 0 ELSE 2 ],
               out |-> (IF r.err = "help" THEN << >>
                        ELSE << [ name |-> << "error" >>, value |-> r.err ] >>)
                       \o Usage(reg.formal) ]

(***************************************************************************)
(* The caller's operations.  They run on the caller's goroutine, which is  *)
(* at pc.at = "idle" between two calls.                                    *)
(***************************************************************************)
Alive == exit.by = "none"

Idle == Alive /\ pc.at = "idle"

LogLine(m, ev, err) == [ name |-> m.name, ev |-> ev, err |-> err ]

Call(op, i, err, by) == [ op |-> op, m |-> i, err |-> err, by |-> by ]

\* p.Configure(o)
ConfigureCall(o) ==
    /\ Idle
    /\ p' = Configure(p, << o >>)
    /\ UNCHANGED << fs, environ, rt, disk, log, calls, stderr, pc, watchers, exit,
                    nstarts, nfaults, nints >>

\* p.SetFlags(f) on the caller's flag set; a redefined flag panics.
SetFlagsCall ==
    /\ Idle
    /\ LET r == SetFlags(p, fs.formal)
       IN  /\ p' = r.q
           /\ fs' = [ fs EXCEPT !.formal = r.formal ]
           /\ exit' = IF r.panic THEN [ by |-> "panic", code |-> 2 ] ELSE exit
    /\ UNCHANGED << environ, rt, disk, log, calls, stderr, pc, watchers,
                    nstarts, nfaults, nints >>

\* f.Parse(args) on the caller's flag set (flag.ContinueOnError: the error
\* is returned to the caller).
ParseCall(args) ==
    /\ Idle
    /\ LET r == Parse(p.methods, fs.formal, args)
       IN  /\ p' = [ p EXCEPT !.methods = r.methods ]
           /\ fs' = [ fs EXCEPT !.parsed = TRUE, !.err = r.err, !.actual = @ \cup r.actual ]
    /\ UNCHANGED << environ, rt, disk, log, calls, stderr, pc, watchers, exit,
                    nstarts, nfaults, nints >>

\* r.SetFlags(f) of a Runner: each method registers its flags where its
\* SetFlags declares them.
RunnerSetFlagsCall ==
    /\ Idle
    /\ LET r == RunnerSetFlags(p, fs.formal, rt.commandline.formal, fs.global)
       IN  /\ p' = [ p EXCEPT !.methods = r.methods ]
           /\ fs' = [ fs EXCEPT !.formal = r.f ]
           /\ rt' = [ rt EXCEPT !.commandline.formal = r.commandline ]
           /\ exit' = IF r.panic THEN [ by |-> "panic", code |-> 2 ] ELSE exit
    /\ UNCHANGED << environ, disk, log, calls, stderr, pc, watchers,
                    nstarts, nfaults, nints >>

\* flag.Parse(): the arguments of the process parsed with flag.CommandLine,
\* whose error handling is flag.ExitOnError.
CommandLineParse(args) ==
    /\ Idle
    /\ LET r == Parse(p.methods, rt.commandline.formal, args)
       IN  /\ p' = [ p EXCEPT !.methods = r.methods ]
           /\ rt' = [ rt EXCEPT !.commandline.parsed = TRUE ]
           /\ exit' = IF r.err = "none" THEN exit
                      ELSE [ by |-> "flag", code |-> IF r.err = "help" THEN 0 ELSE 2 ]
    /\ UNCHANGED << fs, environ, disk, log, calls, stderr, pc, watchers,
                    nstarts, nfaults, nints >>

\* The model keeps the log and the call history of the current run: they
\* are cut when a Start begins with nothing recorded as running.
Cut(h) == IF p.running = << >> THEN << >> ELSE h

\* Profile.Start up to the start loop: the defaults and the environment.
\* The caller makes at most bound calls of Start; keep says whether the
\* model keeps the history of the earlier runs.
StartFrom(bound, keep) ==
    /\ Idle
    /\ nstarts < bound
    /\ LET d == setdefaults(p)
           c == IF d.envvar # EmptyString THEN config(d, environ)
                ELSE [ q |-> d, exit |-> NoExit, out |-> << >> ]
       IN  /\ p' = c.q
           /\ exit' = c.exit
           /\ stderr' = stderr \o c.out
           /\ pc' = IF c.exit.by = "none"
                    THEN [ at |-> "start", i |-> 1,
                           snap |-> [ k \in 1 .. Len(c.q.methods) |-> k ] ]
                    ELSE pc
    /\ nstarts' = nstarts + 1
    /\ log' = IF keep THEN log ELSE Cut(log)
    /\ calls' = IF keep THEN calls ELSE Cut(calls)
    /\ UNCHANGED << fs, environ, rt, disk, watchers, nfaults, nints >>

StartBegin == StartFrom(MaxStarts, FALSE)

\* A Start that does nothing once the session has been started before.
StartAgain_Once ==
    /\ Idle
    /\ nstarts < MaxRestarts
    /\ pc' = [ at |-> "start", i |-> 1,
               snap |-> IF nstarts = 0 THEN [ k \in 1 .. Len(p.methods) |-> k ] ELSE << >> ]
    /\ nstarts' = nstarts + 1
    /\ UNCHANGED << p, fs, environ, rt, disk, log, calls, stderr, watchers, exit,
                    nfaults, nints >>

\* Profile.Start called on a session whatever it did before: Start does not
\* look at p.running.  The whole history of the session is kept.
StartAgain == StartFrom(MaxRestarts, TRUE)

\* Runner.Start up to its loop over r.Methods: no default method, no
\* environment.
RunnerStart ==
    /\ Idle
    /\ nstarts < MaxStarts
    /\ pc' = [ at |-> "start", i |-> 1, snap |-> [ k \in 1 .. Len(p.methods) |-> k ] ]
    /\ nstarts' = nstarts + 1
    /\ log' = Cut(log)
    /\ calls' = Cut(calls)
    /\ UNCHANGED << p, fs, environ, rt, disk, stderr, watchers, exit, nfaults, nints >>

\* A start loop that ends at the first Start that fails.
StartStep_Abort(fl) ==
    /\ Alive
    /\ pc.at = "start"
    /\ pc.i <= Len(pc.snap)
    /\ fl = "none" \/ nfaults < MaxFaults
    /\ LET i == pc.snap[pc.i]
           m == p.methods[i]
       IN  IF ~ Enabled(m)
           THEN /\ fl = "none"
                /\ pc' = [ pc EXCEPT !.i = @ + 1 ]
                /\ UNCHANGED << p, rt, disk, log, calls >>
           ELSE /\ fl \in StartFaults(m)
                /\ LET W == methodStart(World(m), fl)
                   IN  /\ p' = [ p EXCEPT !.methods[i] = W.m,
                                          !.running = IF W.err = "none"
                                                      THEN Append(@, i) ELSE @ ]
                       /\ rt' = W.rt
                       /\ disk' = W.disk
                       /\ log' = Append(log, LogLine(m, IF W.err = "none" THEN "started"
                                                        ELSE "error starting", W.err))
                       /\ calls' = Append(calls, Call("Start", i, W.err, 0))
                       /\ pc' = [ pc EXCEPT !.i = IF W.err = "none" THEN @ + 1
                                                  ELSE Len(pc.snap) + 1 ]
    /\ nfaults' = IF fl = "none" THEN nfaults ELSE nfaults + 1
    /\ UNCHANGED << fs, environ, stderr, watchers, exit, nstarts, nints >>

\* A start loop that ends at the first method that is not enabled.
StartStep_Break(fl) ==
    /\ Alive
    /\ pc.at = "start"
    /\ pc.i <= Len(pc.snap)
    /\ fl = "none" \/ nfaults < MaxFaults
    /\ LET i == pc.snap[pc.i]
           m == p.methods[i]
       IN  IF ~ Enabled(m)
           THEN /\ fl = "none"
                /\ pc' = [ pc EXCEPT !.i = Len(pc.snap) + 1 ]
                /\ UNCHANGED << p, rt, disk, log, calls >>
           ELSE /\ fl \in StartFaults(m)
                /\ LET W == methodStart(World(m), fl)
                   IN  /\ p' = [ p EXCEPT !.methods[i] = W.m,
                                          !.running = IF W.err = "none"
                                                      THEN Append(@, i) ELSE @ ]
                       /\ rt' = W.rt
                       /\ disk' = W.disk
                       /\ log' = Append(log, LogLine(m, IF W.err = "none" THEN "started"
                                                        ELSE "error starting", W.err))
                       /\ calls' = Append(calls, Call("Start", i, W.err, 0))
                       /\ pc' = [ pc EXCEPT !.i = @ + 1 ]
    /\ nfaults' = IF fl = "none" THEN nfaults ELSE nfaults + 1
    /\ UNCHANGED << fs, environ, stderr, watchers, exit, nstarts, nints >>

\* One iteration of the start loop.
StartStep(fl) ==
    /\ Alive
    /\ pc.at = "start"
    /\ pc.i <= Len(pc.snap)
    /\ fl = "none" \/ nfaults < MaxFaults
    /\ LET i == pc.snap[pc.i]
           m == p.methods[i]
       IN  IF ~ Enabled(m)
           THEN /\ fl = "none"
                /\ UNCHANGED << p, rt, disk, log, calls >>
           ELSE /\ fl \in StartFaults(m)
                /\ LET W == methodStart(World(m), fl)
                   IN  /\ p' = [ p EXCEPT !.methods[i] = W.m,
                                          !.running = IF W.err = "none"
                                                      THEN Append(@, i) ELSE @ ]
                       /\ rt' = W.rt
                       /\ disk' = W.disk
                       /\ log' = Append(log, LogLine(m, IF W.err = "none" THEN "started"
                                                        ELSE "error starting", W.err))
                       /\ calls' = Append(calls, Call("Start", i, W.err, 0))
    /\ pc' = [ pc EXCEPT !.i = @ + 1 ]
    /\ nfaults' = IF fl = "none" THEN nfaults ELSE nfaults + 1
    /\ UNCHANGED << fs, environ, stderr, watchers, exit, nstarts, nints >>

\* A Start that spawns the watcher whatever the session's options.
StartEnd_AlwaysHook ==
    /\ Alive
    /\ pc.at = "start"
    /\ pc.i > Len(pc.snap)
    /\ watchers' = Append(watchers, [ at |-> "spawned", i |-> 0, snap |-> << >> ])
    /\ pc' = [ at |-> "idle", i |-> 0, snap |-> << >> ]
    /\ UNCHANGED << p, fs, environ, rt, disk, log, calls, stderr, exit,
                    nstarts, nfaults, nints >>

\* The end of Profile.Start: the shutdown hook's goroutine is spawned.
StartEnd ==
    /\ Alive
    /\ pc.at = "start"
    /\ pc.i > Len(pc.snap)
    /\ watchers' = IF p.noshutdownhook THEN watchers
                   ELSE Append(watchers, [ at |-> "spawned", i |-> 0, snap |-> << >> ])
    /\ pc' = [ at |-> "idle", i |-> 0, snap |-> << >> ]
    /\ UNCHANGED << p, fs, environ, rt, disk, log, calls, stderr, exit,
                    nstarts, nfaults, nints >>

\* One m.Stop() of a stop loop run by thread by, with its log line.
StopOne(i, fl, by) ==
    LET m == p.methods[i]
        W == methodStop(World(m), fl)
    IN  /\ fl \in StopFaults(m)
        /\ fl = "none" \/ nfaults < MaxFaults
        /\ p' = [ p EXCEPT !.methods[i] = W.m ]
        /\ rt' = W.rt
        /\ disk' = W.disk
        /\ exit' = IF W.panic THEN [ by |-> "panic", code |-> 2 ] ELSE exit
        /\ log' = IF W.panic THEN log
                  ELSE Append(log, LogLine(m, IF W.err = "none" THEN "stopped"
                                              ELSE "error stopping", W.err))
        /\ calls' = Append(calls, Call("Stop", i, IF W.panic THEN "panic" ELSE W.err, by))
        /\ nfaults' = IF fl = "none" THEN nfaults ELSE nfaults + 1

\* A Stop that walks the running methods from the last to the first.
StopBegin_Reverse ==
    /\ Idle
    /\ pc' = [ at |-> "stop", i |-> 1,
               snap |-> [ k \in 1 .. Len(p.running) |-> p.running[Len(p.running) + 1 - k] ] ]
    /\ UNCHANGED << p, fs, environ, rt, disk, log, calls, stderr, watchers, exit,
                    nstarts, nfaults, nints >>

\* A Stop that walks every method of the session.
StopBegin_AllMethods ==
    /\ Idle
    /\ pc' = [ at |-> "stop", i |-> 1, snap |-> [ k \in 1 .. Len(p.methods) |-> k ] ]
    /\ UNCHANGED << p, fs, environ, rt, disk, log, calls, stderr, watchers, exit,
                    nstarts, nfaults, nints >>

\* Profile.Stop: range p.running is evaluated once, when the loop begins.
StopBegin ==
    /\ Idle
    /\ pc' = [ at |-> "stop", i |-> 1, snap |-> p.running ]
    /\ UNCHANGED << p, fs, environ, rt, disk, log, calls, stderr, watchers, exit,
                    nstarts, nfaults, nints >>

\* A stop loop that ends at the first Stop that fails.
StopStep_Abort(fl) ==
    /\ Alive
    /\ pc.at = "stop"
    /\ pc.i <= Len(pc.snap)
    /\ StopOne(pc.snap[pc.i], fl, 0)
    /\ pc' = [ pc EXCEPT !.i = IF fl = "none" THEN @ + 1 ELSE Len(pc.snap) + 1 ]
    /\ UNCHANGED << fs, environ, stderr, watchers, nstarts, nints >>

StopStep(fl) ==
    /\ Alive
    /\ pc.at = "stop"
    /\ pc.i <= Len(pc.snap)
    /\ StopOne(pc.snap[pc.i], fl, 0)
    /\ pc' = [ pc EXCEPT !.i = @ + 1 ]
    /\ UNCHANGED << fs, environ, stderr, watchers, nstarts, nints >>

\* A Stop that returns without clearing the running set.
StopEnd_KeepRunning ==
    /\ Alive
    /\ pc.at = "stop"
    /\ pc.i > Len(pc.snap)
    /\ pc' = [ at |-> "idle", i |-> 0, snap |-> << >> ]
    /\ UNCHANGED << p, fs, environ, rt, disk, log, calls, stderr, watchers, exit,
                    nstarts, nfaults, nints >>

\* A Stop that ends by dropping the methods of the session as well.
StopEnd_ForgetMethods ==
    /\ Alive
    /\ pc.at = "stop"
    /\ pc.i > Len(pc.snap)
    /\ p' = [ p EXCEPT !.running = << >>, !.methods = << >> ]
    /\ pc' = [ at |-> "idle", i |-> 0, snap |-> << >> ]
    /\ UNCHANGED << fs, environ, rt, disk, log, calls, stderr, watchers, exit,
                    nstarts, nfaults, nints >>

\* p.running = nil
StopEnd ==
    /\ Alive
    /\ pc.at = "stop"
    /\ pc.i > Len(pc.snap)
    /\ p' = [ p EXCEPT !.running = << >> ]
    /\ pc' = [ at |-> "idle", i |-> 0, snap |-> << >> ]
    /\ UNCHANGED << fs, environ, rt, disk, log, calls, stderr, watchers, exit,
                    nstarts, nfaults, nints >>

(***************************************************************************)
(* The shutdown hook's goroutine: signal.Notify, the receive, the log      *)
(* line, p.Stop() and os.Exit(0).                                          *)
(***************************************************************************)
\* c := make(chan os.Signal, 1); signal.Notify(c, os.Interrupt)
WatcherNotify(w) ==
    /\ Alive
    /\ w \in DOMAIN watchers
    /\ watchers[w].at = "spawned"
    /\ watchers' = [ watchers EXCEPT ![w].at = "waiting" ]
    /\ UNCHANGED << p, fs, environ, rt, disk, log, calls, stderr, pc, exit,
                    nstarts, nfaults, nints >>

Subscribed(w) == watchers[w].at # "spawned"

\* An interrupt is delivered to the process.  With no channel subscribed
\* the runtime's default applies and the process dies of the signal.
Interrupt ==
    /\ Alive
    /\ nints < MaxInterrupts
    /\ nints' = nints + 1
    /\ IF \E w \in DOMAIN watchers : Subscribed(w)
       THEN /\ watchers' = [ w \in DOMAIN watchers |->
                               IF watchers[w].at = "waiting"
                               THEN [ watchers[w] EXCEPT !.at = "signalled" ]
                               ELSE watchers[w] ]
            /\ exit' = exit
       ELSE /\ exit' = [ by |-> "signal", code |-> 2 ]
            /\ watchers' = watchers
    /\ UNCHANGED << p, fs, environ, rt, disk, log, calls, stderr, pc, nstarts, nfaults >>

\* s := <-c; p.log("caught ..."); p.Stop() begins.
WatcherCatch(w) ==
    /\ Alive
    /\ w \in DOMAIN watchers
    /\ watchers[w].at = "signalled"
    /\ log' = Append(log, [ name |-> "interrupt", ev |-> "caught", err |-> "none" ])
    /\ watchers' = [ watchers EXCEPT ![w] = [ at |-> "stop", i |-> 1, snap |-> p.running ] ]
    /\ UNCHANGED << p, fs, environ, rt, disk, calls, stderr, pc, exit,
                    nstarts, nfaults, nints >>

WatcherStopStep(w, fl) ==
    /\ Alive
    /\ w \in DOMAIN watchers
    /\ watchers[w].at = "stop"
    /\ watchers[w].i <= Len(watchers[w].snap)
    /\ StopOne(watchers[w].snap[watchers[w].i], fl, w)
    /\ watchers' = [ watchers EXCEPT ![w].i = @ + 1 ]
    /\ UNCHANGED << fs, environ, stderr, pc, nstarts, nints >>

\* p.running = nil; os.Exit(0)
WatcherExit(w) ==
    /\ Alive
    /\ w \in DOMAIN watchers
    /\ watchers[w].at = "stop"
    /\ watchers[w].i > Len(watchers[w].snap)
    /\ p' = [ p EXCEPT !.running = << >> ]
    /\ watchers' = [ watchers EXCEPT ![w].at = "exited" ]
    /\ exit' = [ by |-> "watcher", code |-> ExitOK ]
    /\ UNCHANGED << fs, environ, rt, disk, log, calls, stderr, pc, nstarts, nfaults, nints >>


(***************************************************************************)
(* Initial states and specifications.                                      *)
(***************************************************************************)
\* The process after p := New(options...), with env the value of the
\* environment variable.
InitFrom(options, env, runtimes) ==
    /\ p = New(options)
    /\ fs = NewFlagSet
    /\ environ = env
    /\ rt \in runtimes
    /\ disk = [ files |-> {}, open |-> 0 ]
    /\ log = << >>
    /\ calls = << >>
    /\ stderr = << >>
    /\ pc = [ at |-> "idle", i |-> 0, snap |-> << >> ]
    /\ watchers = << >>
    /\ exit = NoExit
    /\ nstarts = 0
    /\ nfaults = 0
    /\ nints = 0

\* The runtime of a process in which nothing has changed the profiling
\* globals: no profile running, the default memory rate, block and mutex
\* profiling off.
DefaultRuntimes ==
    [ cpu : { << >> }, trace : { << >> }, MemProfileRate : RuntimeMemRates,
      blockrate : { BlockRateOff }, mutexfraction : { MutexFractionOff } ]

InitWith(options, env) == InitFrom(options, env, DefaultRuntimes)

\* The methods an option adds, and whether the session has none of them yet.
Adds(o) == Configure(New(<< >>), << o >>).methods

Fresh(o) ==
    \A k \in DOMAIN Adds(o) : \A j \in DOMAIN p.methods : p.methods[j].name # Adds(o)[k].name

\* All sequences over S of length at most n.
RECURSIVE SeqsUpTo(_, _)
SeqsUpTo(S, n) ==
    IF n = 0 THEN { << >> }
    ELSE LET shorter == SeqsUpTo(S, n - 1)
         IN  shorter \cup { Append(t, x) : t \in shorter, x \in S }

\* The command-line arguments the caller parses: -name=value for the flags
\* registered on its flag set, with a value of the flag's kind.
FileValues == { << "cpu.out" >>, << "mem.out" >> }

RateValues == { << "0" >>, << "2" >> }

FlagTokens(formal) ==
    { << "-" >> \o r.name \o << "=" >> \o v :
        r \in formal, v \in FileValues \cup RateValues }

ArgTokens(formal) ==
    { t \in FlagTokens(formal) :
        \E r \in formal :
            /\ SubSeq(t, 2, 1 + Len(r.name)) = r.name
            /\ Len(t) = Len(r.name) + 3
            /\ t[Len(t)] \in DigitWords <=> r.kind = "int" }

ArgLists == SeqsUpTo(ArgTokens(fs.formal), MaxArgs)

\* Sessions configured by flags, with the shutdown hook disabled and no
\* failure injected.  The caller adds a category at most once, registers
\* its flags once and parses once, all before the first Start.
SpecOptions == { "CPUProfile", "MemProfile", "BlockProfile" }

Unstarted == nstarts = 0

Init == InitWith(<< "NoShutdownHook" >>, EmptyString)

Next ==
    \/ \E o \in SpecOptions : Unstarted /\ Fresh(o) /\ ConfigureCall(o)
    \/ Unstarted /\ fs.formal = {} /\ SetFlagsCall
    \/ \E args \in ArgLists : Unstarted /\ ~ fs.parsed /\ fs.formal # {} /\ ParseCall(args)
    \/ StartBegin
    \/ StartStep("none")
    \/ StartEnd
    \/ StopBegin
    \/ StopStep("none")
    \/ StopEnd

Spec == Init /\ [][Next]_vars

\* Sessions without flag parsing, with failures injected into the methods'
\* Start and Stop.  CPU and trace are the methods whose Start can fail.
\* Configure, SetFlags, Start and Stop are called in any order; a SetFlags
\* on a flag set that holds one of the flags already panics.
FaultOptions == { "CPUProfile", "TraceProfile", "MemProfile" }

AnyFault == { "none", "create", "runtime", "write", "close", "writeclose" }

NextFault ==
    \/ \E o \in FaultOptions : Fresh(o) /\ ConfigureCall(o)
    \/ SetFlagsCall
    \/ StartBegin
    \/ \E fl \in AnyFault : StartStep(fl)
    \/ StartEnd
    \/ StopBegin
    \/ \E fl \in AnyFault : StopStep(fl)
    \/ StopEnd

SpecFault == Init /\ [][NextFault]_vars

\* Sessions configured by the environment, as the env example and the
\* tests build them: every category added and the key PROFILE configured.
\* The value of the variable is a comma-separated list of entries.
RECURSIVE Join(_)
Join(entries) ==
    IF entries = << >> THEN EmptyString
    ELSE IF Len(entries) = 1 THEN entries[1]
    ELSE entries[1] \o << "," >> \o Join(Tail(entries))

EnvKeys == { << "cpuprofile" >>, << "memprofile" >>, << "memprofilerate" >> }

EnvValues == { << "cpu.out" >>, << "mem.out" >>, << "2" >> }

KeyValue(k, v) == k \o << "=" >> \o v

Entries ==
    { KeyValue(k, v) : k \in EnvKeys, v \in EnvValues }
        \cup { << "cpuprofile" >>, << "help" >>, << "b" >>, EmptyString }

\* Values with an empty entry between two others: a doubled comma.
DoubledComma ==
    { Join(<< e, EmptyString, f >>) :
        e \in { KeyValue(<< "cpuprofile" >>, << "cpu.out" >>), << "cpuprofile" >> },
        f \in { KeyValue(<< "memprofile" >>, << "mem.out" >>), << "b" >> } }

EnvStrings == { Join(es) : es \in SeqsUpTo(Entries, MaxEntries) } \cup DoubledComma

InitEnv ==
    \E env \in EnvStrings :
        InitWith(<< "AllProfiles", "ConfigEnvVar", "NoShutdownHook" >>, env)

NextEnv ==
    \/ StartBegin
    \/ StartStep("none")
    \/ StartEnd
    \/ StopBegin
    \/ StopStep("none")
    \/ StopEnd

SpecEnv == InitEnv /\ [][NextEnv]_vars

\* Sessions of the methods that set a global rate, configured by the
\* environment, in a process whose globals the program may have set
\* before; serialization may fail in Stop.
RateSession ==
    << "MemProfile", "BlockProfile", "MutexProfile", "ConfigEnvVar", "NoShutdownHook" >>

RateEntries ==
    { KeyValue(<< "memprofile" >>, << "mem.out" >>),
      KeyValue(<< "memprofilerate" >>, << "2" >>),
      KeyValue(<< "blockprofile" >>, << "block.out" >>),
      KeyValue(<< "blockprofilerate" >>, << "2" >>),
      KeyValue(<< "blockprofilerate" >>, << "0" >>),
      KeyValue(<< "mutexprofile" >>, << "mutex.out" >>),
      KeyValue(<< "mutexprofilefraction" >>, << "2" >>) }

RateStrings == { Join(es) : es \in SeqsUpTo(RateEntries, MaxEntries) }

PriorRuntimes ==
    [ cpu : { << >> }, trace : { << >> }, MemProfileRate : RuntimeMemRates \cup { 4096 },
      blockrate : { BlockRateOff, 5 }, mutexfraction : { MutexFractionOff, 5 } ]

InitRate == \E env \in RateStrings : InitFrom(RateSession, env, PriorRuntimes)

NextRate ==
    \/ StartBegin
    \/ StartStep("none")
    \/ StartEnd
    \/ StopBegin
    \/ \E fl \in AnyFault : StopStep(fl)
    \/ StopEnd

SpecRate == InitRate /\ [][NextRate]_vars

\* Sessions with the shutdown hook: the caller's Start and Stop, the
\* watchers and the interrupts.
HookSessions ==
    { << >>, << "CPUProfile", "MemProfile" >>,
      << "CPUProfile", "MemProfile", "NoShutdownHook" >> }

InitHook == \E options \in HookSessions : InitWith(options, EmptyString)

NextHook ==
    \/ StartBegin
    \/ StartStep("none")
    \/ StartEnd
    \/ StopBegin
    \/ StopStep("none")
    \/ StopEnd
    \/ Interrupt
    \/ \E w \in DOMAIN watchers : WatcherNotify(w)
    \/ \E w \in DOMAIN watchers : WatcherCatch(w)
    \/ \E w \in DOMAIN watchers : WatcherStopStep(w, "none")
    \/ \E w \in DOMAIN watchers : WatcherExit(w)

SpecHook == InitHook /\ [][NextHook]_vars

\* Sessions started more than once: the caller calls Start and Stop in any
\* order, with failures injected, on a session configured by its options
\* alone.
RestartSessions ==
    { << "NoShutdownHook" >>,
      << "CPUProfile", "MemProfile", "NoShutdownHook" >>,
      << "MemProfile", "TraceProfile", "NoShutdownHook" >> }

\* The same with the environment key: the variable names the memory
\* profile only.
RestartEnvSession == << "CPUProfile", "MemProfile", "ConfigEnvVar", "NoShutdownHook" >>

RestartEnv == KeyValue(<< "memprofile" >>, << "mem.out" >>)

InitRestart ==
    \/ \E options \in RestartSessions : InitWith(options, EmptyString)
    \/ InitWith(RestartEnvSession, RestartEnv)

NextRestart ==
    \/ StartAgain
    \/ \E fl \in AnyFault : StartStep(fl)
    \/ StartEnd
    \/ StopBegin
    \/ \E fl \in AnyFault : StopStep(fl)
    \/ StopEnd

SpecRestart == InitRestart /\ [][NextRestart]_vars

\* Sessions built from any options, a category possibly added more than
\* once, with or without the environment key; the caller registers the
\* flags at most once, before the first Start.
DupOptions ==
    { "CPUProfile", "MemProfile", "GoroutineProfile", "ThreadcreationProfile",
      "AllProfiles" }

DupSessions == SeqsUpTo(DupOptions, MaxOptions)

DupEnvs == { EmptyString, KeyValue(<< "cpuprofile" >>, << "cpu.out" >>) }

InitDup ==
    \E options \in DupSessions, key \in { << >>, << "ConfigEnvVar" >> }, env \in DupEnvs :
        InitWith(options \o key \o << "NoShutdownHook" >>, env)

NextDup ==
    \/ Unstarted /\ fs.formal = {} /\ SetFlagsCall
    \/ StartBegin
    \/ StartStep("none")
    \/ StartEnd
    \/ StopBegin
    \/ StopStep("none")
    \/ StopEnd

SpecDup == InitDup /\ [][NextDup]_vars

\* Sessions that differ in the order of their options only: every order
\* of every choice of distinct categories, with the environment key or
\* without, and no failure injected.
PermOptions == { "CPUProfile", "MemProfile", "BlockProfile" }

PermSessions ==
    { o \in SeqsUpTo(PermOptions, Cardinality(PermOptions)) :
        \A i, j \in DOMAIN o : i # j => o[i] # o[j] }

PermEntries ==
    { KeyValue(<< "cpuprofile" >>, << "cpu.out" >>),
      KeyValue(<< "memprofile" >>, << "mem.out" >>),
      KeyValue(<< "blockprofile" >>, << "block.out" >>),
      KeyValue(<< "blockprofilerate" >>, << "0" >>),
      << "b" >> }

PermStrings == { Join(es) : es \in SeqsUpTo(PermEntries, MaxEntries) }

InitPerm ==
    \E options \in PermSessions, key \in { << >>, << "ConfigEnvVar" >> },
       env \in PermStrings :
        InitWith(options \o key \o << "NoShutdownHook" >>, env)

NextPerm ==
    \/ StartBegin
    \/ StartStep("none")
    \/ StartEnd
    \/ StopBegin
    \/ StopStep("none")
    \/ StopEnd

SpecPerm == InitPerm /\ [][NextPerm]_vars

\* A Runner that holds the exported methods, as the example builds it.
\* The flag set f the caller passes to SetFlags is flag.CommandLine
\* (fs.global) or a flag set of its own; the caller registers once and
\* parses once, before Start.  A Runner has no shutdown hook and no
\* environment key.  The loops of Runner.Start and Runner.Stop are those
\* of Profile.Start and Profile.Stop.
RunnerMethods == { << CPU >>, << CPU, Mem >> }

InitRunner ==
    /\ \E ms \in RunnerMethods :
          p = [ methods |-> ms, noshutdownhook |-> TRUE, envvar |-> EmptyString,
                running |-> << >> ]
    /\ \E global \in BOOLEAN :
          fs = [ formal |-> {}, actual |-> {}, parsed |-> FALSE, err |-> "none",
                 global |-> global ]
    /\ environ = EmptyString
    /\ rt \in [ cpu : { << >> }, trace : { << >> }, MemProfileRate : RuntimeMemRates,
                 blockrate : { BlockRateOff }, mutexfraction : { MutexFractionOff },
                 commandline : { [ formal |-> {}, parsed |-> FALSE ] } ]
    /\ disk = [ files |-> {}, open |-> 0 ]
    /\ log = << >>
    /\ calls = << >>
    /\ stderr = << >>
    /\ pc = [ at |-> "idle", i |-> 0, snap |-> << >> ]
    /\ watchers = << >>
    /\ exit = NoExit
    /\ nstarts = 0
    /\ nfaults = 0
    /\ nints = 0

Registering == Unstarted /\ fs.formal = {} /\ rt.commandline.formal = {}

NextRunner ==
    \/ Registering /\ RunnerSetFlagsCall
    \/ \E args \in ArgLists :
          Unstarted /\ ~ fs.global /\ ~ fs.parsed /\ fs.formal # {} /\ ParseCall(args)
    \/ \E args \in SeqsUpTo(ArgTokens(rt.commandline.formal), MaxArgs) :
          Unstarted /\ ~ rt.commandline.parsed /\ rt.commandline.formal # {}
                    /\ CommandLineParse(args)
    \/ RunnerStart
    \/ \E fl \in AnyFault : StartStep(fl)
    \/ StartEnd
    \/ StopBegin
    \/ \E fl \in AnyFault : StopStep(fl)
    \/ StopEnd

SpecRunner == InitRunner /\ [][NextRunner]_vars

\* Sessions with the shutdown hook that are started more than once: every
\* Start spawns a watcher, and no Stop ends one.
RehookSessions == { << >>, << "MemProfile" >> }

InitRehook == \E options \in RehookSessions : InitWith(options, EmptyString)

NextRehook ==
    \/ StartAgain
    \/ StartStep("none")
    \/ StartEnd
    \/ StopBegin
    \/ StopStep("none")
    \/ StopEnd
    \/ Interrupt
    \/ \E w \in DOMAIN watchers : WatcherNotify(w)
    \/ \E w \in DOMAIN watchers : WatcherCatch(w)
    \/ \E w \in DOMAIN watchers : WatcherStopStep(w, "none")
    \/ \E w \in DOMAIN watchers : WatcherExit(w)

SpecRehook == InitRehook /\ [][NextRehook]_vars

\* Sessions configured twice: by the caller's flags, registered and parsed
\* before Start, and by the environment key.
OverrideSession == << "CPUProfile", "BlockProfile", "ConfigEnvVar", "NoShutdownHook" >>

OverrideEntries ==
    { KeyValue(<< "cpuprofile" >>, << "cpu.out" >>),
      KeyValue(<< "blockprofile" >>, << "block.out" >>),
      KeyValue(<< "blockprofilerate" >>, << "2" >>) }

OverrideStrings == { Join(es) : es \in SeqsUpTo(OverrideEntries, MaxEntries) }

InitOverride == \E env \in OverrideStrings : InitWith(OverrideSession, env)

NextOverride ==
    \/ Unstarted /\ fs.formal = {} /\ SetFlagsCall
    \/ \E args \in ArgLists : Unstarted /\ ~ fs.parsed /\ fs.formal # {} /\ ParseCall(args)
    \/ StartBegin
    \/ StartStep("none")
    \/ StartEnd
    \/ StopBegin
    \/ StopStep("none")
    \/ StopEnd

SpecOverride == InitOverride /\ [][NextOverride]_vars

(***************************************************************************)
(* What the claims speak of.                                               *)
(***************************************************************************)
StartLoopDone == Alive /\ pc.at = "start" /\ pc.i > Len(pc.snap)

StopLoopDone == Alive /\ pc.at = "stop" /\ pc.i > Len(pc.snap)

Paths == { x.path : x \in disk.files }

MethodsOf(h) == [ k \in DOMAIN h |-> h[k].m ]

\* The methods whose Start returned nil, in call order.
Started == MethodsOf(SelectSeq(calls, LAMBDA c : c.op = "Start" /\ c.err = "none"))

Called(op, i) == \E k \in DOMAIN calls : calls[k].op = op /\ calls[k].m = i

AllSucceeded == \A k \in DOMAIN calls : calls[k].err = "none"

HasFilename(i) == p.methods[i].filename # EmptyString

\* Enabled as the specification states it: a filename, and for block and
\* mutex a positive rate.
SpecEnabled(i) ==
    /\ HasFilename(i)
    /\ p.methods[i].type \in { "block", "mutex" } => p.methods[i].rate > 0

Registered(i) == \E r \in fs.formal : r.m = i

(***************************************************************************)
(* C1.  With flags registered by SetFlags and parsed, and every runtime    *)
(* and file operation succeeding, when Stop's loop ends after a Start the   *)
(* files of the directory are exactly the configured paths of the enabled  *)
(* methods, each holding profile data, and a method without a filename was *)
(* neither started nor stopped.                                            *)
(***************************************************************************)
C1_FilesOfEnabledMethods ==
    (StopLoopDone /\ nstarts > 0 /\ AllSucceeded) =>
        /\ Paths = { p.methods[i].filename : i \in { j \in DOMAIN p.methods : SpecEnabled(j) } }
        /\ \A x \in disk.files : x.data
        /\ \A i \in DOMAIN p.methods :
              /\ SpecEnabled(i) => Called("Start", i) /\ Called("Stop", i)
              /\ ~ HasFilename(i) => ~ Called("Start", i) /\ ~ Called("Stop", i)

\* Two methods with flags parsed: one given a filename and run, the other
\* present without one.
C1_Witness ==
    /\ StopLoopDone /\ nstarts > 0 /\ AllSucceeded
    /\ fs.parsed
    /\ \E i, j \in DOMAIN p.methods :
          /\ Registered(i) /\ Registered(j)
          /\ SpecEnabled(i) /\ ~ HasFilename(j)
          /\ p.methods[i].filename \in Paths


(***************************************************************************)
(* C2.  In a session to which no method was added, SetFlags registers the  *)
(* default CPU method with an empty filename; once its flag set was parsed *)
(* with no flag set, the method is not enabled, and a Start followed by a  *)
(* Stop calls no method and creates no file.                               *)
(***************************************************************************)
C2_DefaultCPUNotEnabled ==
    ( /\ Len(p.methods) = 1 /\ p.methods[1].type = "cpu"
      /\ Registered(1)
      /\ fs.parsed /\ fs.err = "none" /\ fs.actual = {} ) =>
        /\ ~ HasFilename(1)
        /\ ~ Enabled(p.methods[1])
        /\ calls = << >>
        /\ p.running = << >>
        /\ disk.files = {}

\* The default-only session after SetFlags, a parse that set no flag, a
\* Start and a Stop.
C2_Witness ==
    /\ Len(p.methods) = 1 /\ p.methods[1].type = "cpu"
    /\ Registered(1)
    /\ fs.parsed /\ fs.err = "none" /\ fs.actual = {}
    /\ nstarts > 0
    /\ StopLoopDone


LastCall == calls[Len(calls)]

(***************************************************************************)
(* C3.  Once Start has run on a session made by New() with no option, the  *)
(* session holds exactly the method the CPUProfile option adds, with the   *)
(* filename cpu.pprof; the start loop calls its Start, and when its Stop   *)
(* has returned nil the file cpu.pprof holds the profile.                  *)
(***************************************************************************)
C3_DefaultIsCPUProfile ==
    nstarts > 0 =>
        /\ Len(p.methods) >= 1
        /\ Len(p.methods) = 1 =>
              /\ [ p.methods[1] EXCEPT !.f = "nil" ] = CPUProfile(New(<< >>)).methods[1]
              /\ p.methods[1].filename = << "cpu.pprof" >>
              /\ Enabled(p.methods[1])
              /\ (Alive /\ ~ (pc.at = "start" /\ pc.i = 1)) => Called("Start", 1)
              /\ (StartLoopDone /\ \E k \in DOMAIN Started : Started[k] = 1) =>
                    \E k \in DOMAIN p.running : p.running[k] = 1
              /\ (calls # << >> /\ LastCall.op = "Stop" /\ LastCall.err = "none") =>
                    [ path |-> << "cpu.pprof" >>, data |-> TRUE ] \in disk.files

\* New(), Start, Stop: the caller's Stop has written cpu.pprof.
C3_Witness ==
    /\ nstarts > 0
    /\ Len(p.methods) = 1
    /\ ~ p.noshutdownhook
    /\ StopLoopDone
    /\ calls # << >> /\ LastCall = Call("Stop", 1, "none", 0)
    /\ [ path |-> << "cpu.pprof" >>, data |-> TRUE ] \in disk.files

(***************************************************************************)
(* C4.  The list of methods changes only by an explicit Configure, which   *)
(* appends, or by a SetFlags or a Start that finds the list empty, which   *)
(* makes it exactly one CPU method; a SetFlags or a Start that finds a     *)
(* method in the list adds none.                                           *)
(***************************************************************************)
C4_Step ==
    LET n == Len(p.methods)
        kinds(q) == [ k \in DOMAIN q.methods |-> q.methods[k].type ]
    IN  IF fs'.formal # fs.formal \/ nstarts' # nstarts
        THEN IF n = 0 THEN kinds(p') = << "cpu" >> ELSE kinds(p') = kinds(p)
        ELSE \/ kinds(p') = kinds(p)
             \/ /\ Len(p'.methods) = n + 1
                /\ SubSeq(kinds(p'), 1, n) = kinds(p)
                /\ pc.at = "idle"
                /\ UNCHANGED << fs, environ, rt, disk, log, calls, stderr, pc, watchers,
                                exit, nstarts, nfaults, nints >>

C4_DefaultOnlyWhenEmpty == [][C4_Step]_vars

\* The default was added by SetFlags, and the Start that followed found it
\* and added nothing.
C4_Witness ==
    /\ nstarts > 0
    /\ Len(p.methods) = 1 /\ p.methods[1].type = "cpu"
    /\ Registered(1) /\ ~ HasFilename(1)
    /\ StartLoopDone


(***************************************************************************)
(* Assignments of values to distinct configuration keys, the environment   *)
(* value k1=v1,...,kn=vn of an assignment and its arguments                *)
(* -k1=v1 ... -kn=vn.  One of the values holds a comma.                    *)
(***************************************************************************)
CommaValue == << "cpu.out", ",", "b" >>

AssignedValues == EnvValues \cup { CommaValue }

Assignments ==
    { A \in SeqsUpTo([ key : EnvKeys, value : AssignedValues ], MaxEntries) :
        \A j, k \in DOMAIN A : j # k => A[j].key # A[k].key }

EnvOf(A) == Join([ k \in DOMAIN A |-> KeyValue(A[k].key, A[k].value) ])

FlagArgs(A) == [ k \in DOMAIN A |-> << "-" >> \o KeyValue(A[k].key, A[k].value) ]

\* The assignments an environment value is the value of.
ByEnv == [ e \in { EnvOf(A) : A \in Assignments } |-> { A \in Assignments : EnvOf(A) = e } ]

CommaFree(A) == \A k \in DOMAIN A : Index(A[k].value, ",", 1) = 0

\* All categories added, SetFlags on a new flag set, and the parse of the
\* arguments of A.
FlagsRun(A) ==
    LET r == SetFlags(New(<< "AllProfiles" >>), {})
    IN  Parse(r.q.methods, r.formal, FlagArgs(A))

\* The session configured from the environment agrees with FlagsRun(A):
\* both reject the configuration or both accept it, with the same filenames
\* and rates, and the start loop starts the methods FlagsRun(A) enabled.
SameAsFlags(A) ==
    LET F == FlagsRun(A)
    IN  /\ exit.by = "flag" <=> F.err # "none"
        /\ exit.by = "none" =>
              /\ DOMAIN p.methods = DOMAIN F.methods
              /\ \A i \in DOMAIN p.methods :
                    /\ p.methods[i].filename = F.methods[i].filename
                    /\ p.methods[i].rate = F.methods[i].rate
        /\ StartLoopDone =>
              { Started[k] : k \in DOMAIN Started } =
                  { i \in DOMAIN F.methods : Enabled(F.methods[i]) }

(***************************************************************************)
(* C5.  With all categories added, for every assignment of non-empty       *)
(* values without a comma to distinct keys, a Start configured by the      *)
(* environment value k1=v1,...,kn=vn starts the same methods with the same *)
(* filenames and rates as SetFlags, the parse of -k1=v1 ... -kn=vn and a   *)
(* Start.                                                                  *)
(***************************************************************************)
C5_EnvEqualsFlags ==
    (nstarts > 0 /\ environ \in DOMAIN ByEnv) =>
        \A A \in ByEnv[environ] : CommaFree(A) => SameAsFlags(A)

\* C5 as stated, for every assignment of non-empty values: a value with a
\* comma in it is split by the environment configuration.
C5_AnyValue ==
    (nstarts > 0 /\ environ \in DOMAIN ByEnv) =>
        \A A \in ByEnv[environ] : SameAsFlags(A)

\* cpuprofile=cpu.out,memprofile=mem.out has started exactly cpu and mem.
C5_Witness ==
    /\ environ = EnvOf(<< [ key |-> << "cpuprofile" >>, value |-> << "cpu.out" >> ],
                          [ key |-> << "memprofile" >>, value |-> << "mem.out" >> ] >>)
    /\ environ \in DOMAIN ByEnv
    /\ StartLoopDone
    /\ { p.methods[Started[k]].name : k \in DOMAIN Started } = { "cpu", "mem" }
    /\ \E i, j \in DOMAIN p.methods :
          /\ p.methods[i].name = "cpu" /\ p.methods[i].filename = << "cpu.out" >>
          /\ p.methods[j].name = "mem" /\ p.methods[j].filename = << "mem.out" >>


(***************************************************************************)
(* C6.  With an environment key configured, all seven categories added and *)
(* the variable unset or empty, the configuration string yields the one    *)
(* token "-", at which flag parsing stops without an error; Start starts   *)
(* no method, the running set stays empty and no file is created.          *)
(***************************************************************************)
NothingStarted ==
    /\ exit = NoExit
    /\ Len(p.methods) = 7
    /\ \A i \in DOMAIN p.methods : ~ Enabled(p.methods[i])
    /\ calls = << >>
    /\ p.running = << >>
    /\ disk.files = {}

C6_EmptyEnvStartsNothing ==
    (environ = EmptyString /\ p.envvar # EmptyString /\ nstarts > 0) =>
        /\ ArgsOf(environ) = << << "-" >> >>
        /\ NothingStarted

\* C6 as stated: the empty string yields no token at all.
C6_ZeroTokens ==
    (environ = EmptyString /\ p.envvar # EmptyString /\ nstarts > 0) =>
        /\ ArgsOf(environ) = << >>
        /\ NothingStarted

\* The empty variable, every category added, after a Start and a Stop.
C6_Witness ==
    /\ environ = EmptyString /\ p.envvar # EmptyString
    /\ Len(p.methods) = 7
    /\ nstarts > 0
    /\ StopLoopDone

(***************************************************************************)
(* C7.  While Start runs, the running set is the list of the methods whose *)
(* Start returned nil, in call order; when its loop ends every enabled     *)
(* method has had its Start called, whichever of them failed, and on a     *)
(* first Start no method that is not enabled has.                          *)
(***************************************************************************)
C7_StartFailureDoesNotAbort ==
    /\ (Alive /\ pc.at = "start") => p.running = Started
    /\ StartLoopDone =>
          \A i \in DOMAIN p.methods :
              /\ Enabled(p.methods[i]) => Called("Start", i)
              /\ (nstarts = 1 /\ ~ Enabled(p.methods[i])) => ~ Called("Start", i)

\* A Start failed and the Start of a later method succeeded.
C7_Witness ==
    /\ StartLoopDone
    /\ \E j, k \in DOMAIN calls :
          /\ j < k
          /\ calls[j].op = "Start" /\ calls[j].err # "none"
          /\ calls[k].op = "Start" /\ calls[k].err = "none"
          /\ calls[k].m \notin { calls[h].m : h \in 1 .. j }
    /\ \E i \in DOMAIN p.methods : Enabled(p.methods[i]) /\ i \notin { p.running[k] : k \in DOMAIN p.running }

(***************************************************************************)
(* C8.  While Stop runs, the Stop calls made so far are those of the first *)
(* methods of the running set, one each, whatever they returned; Stop      *)
(* ends the process in no case, and once it has returned the running set   *)
(* is empty.                                                               *)
(***************************************************************************)
C8_StopCallsEveryRunningMethod ==
    /\ pc.at = "stop" =>
          /\ exit = NoExit
          /\ pc.snap = p.running
          /\ Len(calls) >= pc.i - 1
          /\ \A k \in 1 .. pc.i - 1 :
                LET c == calls[Len(calls) - (pc.i - 1) + k]
                IN  c.op = "Stop" /\ c.m = pc.snap[k] /\ c.by = 0
    /\ (pc.at = "idle" /\ calls # << >> /\ LastCall.op = "Stop") => p.running = << >>

\* The first Stop of two failed and the second was still called.
C8_Witness ==
    /\ StopLoopDone
    /\ Len(pc.snap) >= 2
    /\ Len(calls) >= 2
    /\ calls[Len(calls) - 1].op = "Stop" /\ calls[Len(calls) - 1].err # "none"
    /\ LastCall.op = "Stop" /\ LastCall.err = "none"

(***************************************************************************)
(* C9.  When Stop's loop ends, the methods it stopped are the methods      *)
(* whose Start returned nil, in the order of their Start calls, which on a *)
(* first Start is the order of the method list; the names of the started   *)
(* lines of the log and those of its stopped and error stopping lines      *)
(* are in the same order.                                                  *)
(***************************************************************************)
NamesOf(h) == [ k \in DOMAIN h |-> h[k].name ]

C9_StopInStartOrder ==
    (StopLoopDone /\ pc.snap # << >>) =>
        LET n == Len(pc.snap)
        IN  /\ Len(calls) >= n
            /\ [ k \in 1 .. n |-> calls[Len(calls) - n + k].m ] = Started
            /\ nstarts = 1 => \A j, k \in DOMAIN Started : j < k => Started[j] < Started[k]
            /\ NamesOf(SelectSeq(log, LAMBDA l : l.ev = "started")) =
                   NamesOf(SelectSeq(log, LAMBDA l : l.ev \in { "stopped", "error stopping" }))

\* Three methods, the second failed to start: the first and the third were
\* stopped in that order.
C9_Witness ==
    /\ StopLoopDone
    /\ Len(p.methods) = 3
    /\ Started = << 1, 3 >>
    /\ Len(calls) >= 2
    /\ calls[Len(calls) - 1].op = "Stop" /\ calls[Len(calls) - 1].m = 1
    /\ LastCall.op = "Stop" /\ LastCall.m = 3


(***************************************************************************)
(* C10.  With the shutdown hook enabled, a process that an interrupt       *)
(* ended after Start had returned, its caller not being in Stop, was ended *)
(* by the watcher with exit status 0, after the watcher logged the signal  *)
(* and called Stop on every method of the running set, the methods that    *)
(* started successfully.                                                   *)
(***************************************************************************)
StoppedBy(w) ==
    /\ watchers[w].at = "exited"
    /\ \E k \in DOMAIN log : log[k].ev = "caught"
    /\ watchers[w].snap = Started
    /\ \A k \in DOMAIN watchers[w].snap :
          \E h \in DOMAIN calls :
              calls[h].op = "Stop" /\ calls[h].m = watchers[w].snap[k] /\ calls[h].by = w

C10_InterruptStopsThenExits ==
    ( /\ exit.by # "none" /\ nints > 0
      /\ watchers # << >>
      /\ pc.at = "idle" /\ \A h \in DOMAIN calls : calls[h].by = 0 => calls[h].op # "Stop" ) =>
        /\ exit = [ by |-> "watcher", code |-> ExitOK ]
        /\ \E w \in DOMAIN watchers : StoppedBy(w)


(***************************************************************************)
(* C11.  In a session with the NoShutdownHook option no watcher exists:    *)
(* every Stop call is made by the caller's own Stop, no interrupt is       *)
(* caught, and the process is never ended by the watcher.                  *)
(***************************************************************************)
C11_NoHookNoWatcher ==
    p.noshutdownhook =>
        /\ watchers = << >>
        /\ exit.by # "watcher"
        /\ \A k \in DOMAIN log : log[k].ev # "caught"
        /\ \A k \in DOMAIN calls : calls[k].op = "Stop" => calls[k].by = 0

\* The hook disabled, two methods running, an interrupt delivered: the
\* process is gone and no Stop was called.
C11_Witness ==
    /\ p.noshutdownhook
    /\ nints > 0
    /\ exit.by = "signal"
    /\ Len(p.running) = 2
    /\ \A k \in DOMAIN calls : calls[k].op = "Start"


(***************************************************************************)
(* The entries of an environment value, as a reader of the value sees      *)
(* them: key=value with a registered key and a value of its kind is a good *)
(* entry; an entry with an unknown key, the help trigger, a value that is  *)
(* no integer for an integer key, or a last entry that is a key without a  *)
(* value, is a bad one.                                                    *)
(***************************************************************************)
AllFlags == SetFlags(New(<< "AllProfiles" >>), {}).formal

EntryName(e) == IF Index(e, "=", 1) = 0 THEN e ELSE SubSeq(e, 1, Index(e, "=", 1) - 1)

EntryValue(e) == SubSeq(e, Index(e, "=", 1) + 1, Len(e))

KindOf(n) == (CHOOSE r \in AllFlags : r.name = n).kind

KnownKey(n) == \E r \in AllFlags : r.name = n

GoodEntry(e) ==
    /\ Index(e, "=", 1) > 1
    /\ KnownKey(EntryName(e))
    /\ KindOf(EntryName(e)) = "int" => IsInt(EntryValue(e))

BadEntry(es, k) ==
    LET e == es[k]
        n == EntryName(e)
    IN  /\ e # EmptyString /\ e[1] \notin { "-", "=" }
        /\ \/ ~ KnownKey(n)
           \/ KnownKey(n) /\ Index(e, "=", 1) = 0 /\ k = Len(es)
           \/ KnownKey(n) /\ Index(e, "=", 1) > 0 /\ KindOf(n) = "int" /\ ~ IsInt(EntryValue(e))

\* The process ended in config: the listing of every registered key was
\* printed last, and no method was started.
EndedWithListing ==
    LET L == Usage(AllFlags)
    IN  /\ exit.by = "flag"
        /\ Len(L) = Len(FlagOrder)
        /\ Len(stderr) >= Len(L)
        /\ SubSeq(stderr, Len(stderr) - Len(L) + 1, Len(stderr)) = L
        /\ calls = << >>
        /\ p.running = << >>
        /\ disk.files = {}

(***************************************************************************)
(* C12.  With an environment key configured, when the entries of the value *)
(* before its first bad entry are all good, Start prints the name=value    *)
(* listing of every registered key and ends the process before any         *)
(* method's Start is called: the running set is empty and no file exists.  *)
(***************************************************************************)
C12_BadConfigEndsBeforeStart ==
    LET es == Split(environ)
    IN  ( /\ nstarts > 0 /\ p.envvar # EmptyString
          /\ \E k \in DOMAIN es : BadEntry(es, k) /\ \A j \in 1 .. k - 1 : GoodEntry(es[j]) ) =>
            EndedWithListing

\* C12 as stated: a bad entry anywhere in the value ends the process.
C12_AnyBadEntry ==
    LET es == Split(environ)
    IN  ( /\ nstarts > 0 /\ p.envvar # EmptyString
          /\ \E k \in DOMAIN es : BadEntry(es, k) ) =>
            EndedWithListing

\* cpuprofile=cpu.out followed by the unknown key b: the process ended
\* with status 2 and cpu was not started.
C12_Witness ==
    /\ environ = Join(<< KeyValue(<< "cpuprofile" >>, << "cpu.out" >>), << "b" >> >>)
    /\ nstarts > 0
    /\ exit = [ by |-> "flag", code |-> 2 ]
    /\ stderr # << >>
    /\ calls = << >>


(***************************************************************************)
(* C13.  On a first Start, a method whose Start failed has its error       *)
(* starting line in the log and no file at its configured path, and every  *)
(* other enabled method has had its Start called when the loop ends.       *)
(***************************************************************************)
FailedStarts == { calls[k].m : k \in { h \in DOMAIN calls : calls[h].op = "Start" /\ calls[h].err # "none" } }

C13_FailedStartLeavesNoArtifact ==
    nstarts = 1 =>
        \A i \in FailedStarts :
            /\ \E k \in DOMAIN log : log[k] = [ name |-> p.methods[i].name, ev |-> "error starting",
                                                err |-> log[k].err ]
            /\ p.methods[i].filename \notin Paths
            /\ StartLoopDone =>
                  \A j \in DOMAIN p.methods : Enabled(p.methods[j]) => Called("Start", j)


(***************************************************************************)
(* C14.  A Start of the mem method snapshots the global allocation rate    *)
(* and installs the configured rate when it is positive, leaving the       *)
(* global unchanged otherwise; its Stop sets the global to the snapshot,   *)
(* whether or not the profile was written; no other step writes the        *)
(* global.  After one Start and the Stop that follows it, the global rate  *)
(* is again a rate the process had before Start.                           *)
(***************************************************************************)
IsCallStep == Len(calls') = Len(calls) + 1 /\ SubSeq(calls', 1, Len(calls)) = calls

NewCall == calls'[Len(calls')]

StartsOf(i) == Cardinality({ k \in DOMAIN calls : calls[k].op = "Start" /\ calls[k].m = i })

C14_Step ==
    IF IsCallStep /\ p.methods[NewCall.m].type = "mem"
    THEN LET m == p.methods[NewCall.m]
         IN  IF NewCall.op = "Start"
             THEN /\ p'.methods[NewCall.m].prevrate = rt.MemProfileRate
                  /\ rt'.MemProfileRate = IF m.rate > 0 THEN m.rate ELSE rt.MemProfileRate
             ELSE rt'.MemProfileRate = m.prevrate
    ELSE /\ rt'.MemProfileRate = rt.MemProfileRate
         /\ \A i \in DOMAIN p.methods :
               (i \in DOMAIN p'.methods /\ p.methods[i].type = "mem") =>
                   p'.methods[i].prevrate = p.methods[i].prevrate

C14_RoundTrip ==
    \A i \in DOMAIN p.methods :
        ( /\ p.methods[i].type = "mem"
          /\ calls # << >> /\ LastCall.op = "Stop" /\ LastCall.m = i
          /\ StartsOf(i) = 1 ) =>
            /\ rt.MemProfileRate = p.methods[i].prevrate
            /\ rt.MemProfileRate \in { r.MemProfileRate : r \in PriorRuntimes }

C14_MemRateSavedAndRestored == [][C14_Step]_vars /\ []C14_RoundTrip

\* The rate 2 was installed over a prior 4096, the profile could not be
\* written, and the global rate is 4096 again.
C14_Witness ==
    /\ calls # << >> /\ LastCall.op = "Stop" /\ LastCall.err # "none"
    /\ p.methods[LastCall.m].type = "mem"
    /\ p.methods[LastCall.m].rate = 2
    /\ StartsOf(LastCall.m) = 1
    /\ rt.MemProfileRate = 4096


(***************************************************************************)
(* C15.  For a block or mutex method, after its Start the global rate is   *)
(* the method's configured rate, which is positive, and after its Stop the *)
(* global rate is 0, whatever the Stop returned and whatever the global    *)
(* rate was before the Start.                                              *)
(***************************************************************************)
LastCallOf(i) ==
    calls[CHOOSE k \in DOMAIN calls :
              calls[k].m = i /\ \A h \in DOMAIN calls : calls[h].m = i => h <= k]

GlobalRateOf(m) == IF m.type = "block" THEN rt.blockrate ELSE rt.mutexfraction

C15_BlockMutexRateOffAfterStop ==
    \A i \in DOMAIN p.methods :
        ( /\ p.methods[i].type \in { "block", "mutex" }
          /\ \E k \in DOMAIN calls : calls[k].m = i ) =>
            IF LastCallOf(i).op = "Start"
            THEN p.methods[i].rate > 0 /\ GlobalRateOf(p.methods[i]) = p.methods[i].rate
            ELSE GlobalRateOf(p.methods[i]) = 0

\* Block profiling ran at rate 2, its profile could not be written, and
\* the global rate is 0; the mutex fraction the process had set is
\* untouched.
C15_Witness ==
    /\ calls # << >> /\ LastCall.op = "Stop" /\ LastCall.err # "none"
    /\ p.methods[LastCall.m].type = "block"
    /\ p.methods[LastCall.m].rate = 2
    /\ rt.blockrate = 0
    /\ rt.mutexfraction = 5


(***************************************************************************)
(* C16.  Each goroutine alone calls a method's Stop at most once for each  *)
(* time the method was recorded as running: the caller at most as often as *)
(* the method's Start succeeded, a watcher at most once for each entry of  *)
(* the running set it walks.  Nothing keeps the caller's Stop and a        *)
(* watcher's Stop apart, so together they can call a method's Stop twice   *)
(* for one successful Start, which C16_Witness reaches.                    *)
(***************************************************************************)
StopsBy(i, t) ==
    Cardinality({ k \in DOMAIN calls : calls[k].op = "Stop" /\ calls[k].m = i /\ calls[k].by = t })

SuccessfulStarts(i) ==
    Cardinality({ k \in DOMAIN calls :
                    calls[k].op = "Start" /\ calls[k].m = i /\ calls[k].err = "none" })

C16_OneStopPerGoroutine ==
    \A i \in DOMAIN p.methods :
        /\ StopsBy(i, 0) <= SuccessfulStarts(i)
        /\ \A w \in DOMAIN watchers :
              StopsBy(i, w) <=
                  Cardinality({ k \in 1 .. watchers[w].i - 1 : watchers[w].snap[k] = i })

\* The caller's Stop and the watcher's Stop are both in their loops, and
\* the method started once has had its Stop called by each of them.
C16_Witness ==
    /\ pc.at = "stop"
    /\ \E w \in DOMAIN watchers :
          /\ watchers[w].at = "stop"
          /\ \E i \in DOMAIN p.methods :
                /\ SuccessfulStarts(i) = 1
                /\ StopsBy(i, 0) = 1
                /\ StopsBy(i, w) = 1


Range(f) == { f[k] : k \in DOMAIN f }

\* The calls made on method i, in order.
Ops(i) == SelectSeq(calls, LAMBDA c : c.m = i)

(***************************************************************************)
(* C17.  No step calls a method's Start while the method is recorded in    *)
(* p.running.                                                              *)
(***************************************************************************)
C17_Step ==
    (IsCallStep /\ NewCall.op = "Start") => NewCall.m \notin Range(p.running)

C17_NoStartWhileRunning == [][C17_Step]_vars

\* No call of Start on a method follows a successful Start of the method
\* without a Stop of it in between.
NoDoubleStart ==
    \A i \in DOMAIN p.methods :
        \A k \in DOMAIN Ops(i) :
            (k > 1 /\ Ops(i)[k].op = "Start") =>
                ~ (Ops(i)[k - 1].op = "Start" /\ Ops(i)[k - 1].err = "none")

\* The list of methods with the configuration of each.
ConfigOf(q) ==
    [ k \in DOMAIN q.methods |->
        << q.methods[k].type, q.methods[k].name, q.methods[k].filename, q.methods[k].rate >> ]

(***************************************************************************)
(* C18.  Stopped is not terminal.  With no environment key, no step of     *)
(* Start or Stop changes the method list or a method's filename or rate,   *)
(* but for the default added by Start to an empty list; Stop ends with     *)
(* p.running empty; and in every run of Start, the first or a later one,   *)
(* each iteration on an enabled method calls its Start and records it in   *)
(* p.running when it succeeds.  Hence whenever the session is at rest with *)
(* nothing running, and no Start was called on a method still running,     *)
(* every enabled method has had its Start called once for each Start of    *)
(* the session, and its calls alternate: every Stop directly follows a     *)
(* successful Start of the method and every successful Start is directly   *)
(* followed by a Stop.                                                     *)
(***************************************************************************)
C18_Step ==
    /\ \/ ConfigOf(p') = ConfigOf(p)
       \/ p.methods = << >> /\ pc.at = "idle" /\ pc'.at = "start"
       \/ p.envvar # EmptyString
    /\ (pc.at = "stop" /\ pc'.at = "idle") => p'.running = << >>
    /\ (pc.at = "start" /\ pc'.at = "start" /\ Enabled(p.methods[pc.snap[pc.i]])) =>
          /\ IsCallStep
          /\ NewCall.op = "Start" /\ NewCall.m = pc.snap[pc.i] /\ NewCall.by = 0
          /\ p'.running = IF NewCall.err = "none" THEN Append(p.running, NewCall.m)
                          ELSE p.running

C18_Alternates ==
    (Idle /\ p.running = << >> /\ NoDoubleStart) =>
        \A i \in DOMAIN p.methods :
            Enabled(p.methods[i]) =>
                /\ StartsOf(i) = nstarts
                /\ \A k \in DOMAIN Ops(i) :
                      /\ Ops(i)[k].op = "Stop" =>
                            k > 1 /\ Ops(i)[k - 1].op = "Start" /\ Ops(i)[k - 1].err = "none"
                      /\ (Ops(i)[k].op = "Start" /\ Ops(i)[k].err = "none") =>
                            k < Len(Ops(i)) /\ Ops(i)[k + 1].op = "Stop"

C18_StoppedIsNotTerminal == [][C18_Step]_vars /\ []C18_Alternates

\* Start, Stop, Start, Stop with nothing failing: a method's Start and Stop
\* were each called twice, in turn.
C18_Witness ==
    /\ Idle /\ p.running = << >> /\ nstarts = 2
    /\ environ = EmptyString /\ p.envvar = EmptyString
    /\ \E i \in DOMAIN p.methods :
          /\ Enabled(p.methods[i])
          /\ [ k \in DOMAIN Ops(i) |-> << Ops(i)[k].op, Ops(i)[k].err >> ] =
                << << "Start", "none" >>, << "Stop", "none" >>,
                   << "Start", "none" >>, << "Stop", "none" >> >>


\* The names of the methods the options add one after the other.
RECURSIVE AddedNames(_)
AddedNames(options) ==
    IF options = << >> THEN << >>
    ELSE LET a == Adds(Head(options))
         IN  [ k \in DOMAIN a |-> a[k].name ] \o AddedNames(Tail(options))

\* The same category is in the method list twice.
Duplicated ==
    \E i, j \in DOMAIN p.methods : i # j /\ p.methods[i].name = p.methods[j].name

(***************************************************************************)
(* C19.  The options accumulate: the method list of New(options) is the    *)
(* methods of the options one after the other, repeated categories         *)
(* included.  Once a category is in the list twice, a SetFlags of the      *)
(* caller ends in the flag set's panic, and so does a Start with the       *)
(* environment key configured, before any method is started; neither       *)
(* returns normally.                                                       *)
(***************************************************************************)
C19_DuplicateFlagsPanic ==
    /\ (nstarts = 0 /\ fs.formal = {}) =>
        \A options \in DupSessions :
          [ k \in DOMAIN New(options).methods |-> New(options).methods[k].name ]
              = AddedNames(options)
    /\ (Duplicated /\ fs.formal # {}) => exit = [ by |-> "panic", code |-> 2 ]
    /\ (Duplicated /\ nstarts > 0 /\ p.envvar # EmptyString) =>
          /\ exit = [ by |-> "panic", code |-> 2 ]
          /\ calls = << >> /\ p.running = << >> /\ disk.files = {}

\* AllProfiles together with CPUProfile and the environment key: Start has
\* ended in the panic.
C19_Witness ==
    /\ Len(p.methods) = 8
    /\ Duplicated
    /\ p.envvar # EmptyString
    /\ nstarts = 1
    /\ fs.formal = {}
    /\ exit.by = "panic"

\* CPUProfile twice: the caller's SetFlags has ended in the panic.
C19_SetFlagsPanics ==
    /\ Len(p.methods) = 2
    /\ Duplicated
    /\ nstarts = 0
    /\ fs.formal # {}
    /\ exit.by = "panic"


\* The options that add the categories of the session, in one fixed order
\* whatever the order they were supplied in, and the session they build.
CanonOrder ==
    << "CPUProfile", "MemProfile", "GoroutineProfile", "ThreadcreationProfile",
       "BlockProfile", "MutexProfile", "TraceProfile" >>

Canon ==
    New(SelectSeq(CanonOrder,
                  LAMBDA o : \E k \in DOMAIN p.methods : p.methods[k].name = Adds(o)[1].name)
        \o (IF p.envvar = EmptyString THEN << >> ELSE << "ConfigEnvVar" >>)
        \o (IF p.noshutdownhook THEN << "NoShutdownHook" >> ELSE << >>))

EnabledNames(ms) == { ms[k].name : k \in { j \in DOMAIN ms : Enabled(ms[j]) } }

EnabledFiles(ms) == { ms[k].filename : k \in { j \in DOMAIN ms : Enabled(ms[j]) } }

\* What Start's defaults and environment make of the session in the fixed
\* order.
CanonConfig ==
    LET d == setdefaults(Canon)
    IN  IF d.envvar # EmptyString THEN config(d, environ)
        ELSE [ q |-> d, exit |-> NoExit, out |-> << >> ]

\* The methods after SetFlags on a fresh flag set and a parse of args.
Parsed(q, args) ==
    LET r == SetFlags(q, {})
    IN  Parse(r.q.methods, r.formal, args)

(***************************************************************************)
(* C20.  With nothing failing, the categories Start has started in a       *)
(* session are those the same options supplied in one fixed order would    *)
(* have started under the same environment, and the files left after Stop  *)
(* are the same; when the configuration ends the process it does so in     *)
(* both.  The Start calls follow the order of the options.  Flags parsed   *)
(* from the same arguments enable the same categories with the same        *)
(* filenames in the session and in the session of the fixed order.         *)
(***************************************************************************)
C20_StartedSetIgnoresOptionOrder ==
    /\ (nstarts > 0) => exit = CanonConfig.exit
    /\ (StartLoopDone \/ (StopLoopDone /\ nstarts > 0)) =>
          /\ Range(NamesOf([ k \in DOMAIN Started |-> p.methods[Started[k]] ]))
                = EnabledNames(CanonConfig.q.methods)
          /\ \A j, k \in DOMAIN calls :
                (j < k /\ calls[j].op = "Start" /\ calls[k].op = "Start"
                       /\ calls[j].m >= calls[k].m) => nstarts > 1
    /\ (StopLoopDone /\ nstarts > 0) => Paths = EnabledFiles(CanonConfig.q.methods)
    /\ (nstarts = 0 /\ p.envvar = EmptyString /\ environ = EmptyString) =>
          \A args \in SeqsUpTo(ArgTokens(SetFlags(p, {}).formal), MaxArgs) :
              LET here == Parsed(p, args)
                  there == Parsed(Canon, args)
              IN  /\ EnabledNames(here.methods) = EnabledNames(there.methods)
                  /\ EnabledFiles(here.methods) = EnabledFiles(there.methods)
                  /\ here.err = there.err

\* Block, then memory, then CPU, with the environment naming the CPU and
\* the memory profile: the two were started, memory first, and stopped.
C20_Witness ==
    /\ StopLoopDone
    /\ NamesOf(p.methods) = << "block", "mem", "cpu" >>
    /\ p.envvar # EmptyString
    /\ NamesOf([ k \in DOMAIN Started |-> p.methods[Started[k]] ]) = << "mem", "cpu" >>
    /\ Paths = { << "cpu.out" >>, << "mem.out" >> }


\* Methods of every category with and without a filename and with a
\* negative, a zero and a positive rate.
SampleMethods ==
    { [ Adds(o)[1] EXCEPT !.filename = f, !.rate = r ] :
        o \in Range(CanonOrder), f \in { EmptyString, << "x.out" >> }, r \in { -1, 0, 2 } }

RateGated(m) == m.type \in { "block", "mutex" }

(***************************************************************************)
(* C21.  A method is enabled exactly when its filename is not empty and,   *)
(* for block and mutex, its rate is positive; the rate of the memory       *)
(* method does not count.  An iteration of the start loop on a method that *)
(* is not enabled changes nothing, and one on an enabled method calls its  *)
(* Start; the first part of Start, which applies the environment, calls no *)
(* method.  So the methods started are those enabled by the configuration  *)
(* as the environment left it, not as the options built it.                *)
(***************************************************************************)
C21_Step ==
    /\ (pc.at = "start" /\ pc'.at = "start") =>
          LET i == pc.snap[pc.i]
          IN  IF SpecEnabled(i)
              THEN IsCallStep /\ NewCall.op = "Start" /\ NewCall.m = i
              ELSE UNCHANGED << p, rt, disk, log, calls >>
    /\ (pc.at = "idle" /\ pc'.at = "start") => Len(calls') <= Len(calls)

C21_EnabledIff ==
    /\ \A m \in SampleMethods :
          Enabled(m) <=> (m.filename # EmptyString /\ (RateGated(m) => m.rate > 0))
    /\ \A i \in DOMAIN p.methods : Enabled(p.methods[i]) <=> SpecEnabled(i)
    /\ StartLoopDone => Range(Started) = { i \in DOMAIN p.methods : SpecEnabled(i) }

C21_EnabledByFilenameAndRate == [][C21_Step]_vars /\ []C21_EnabledIff

\* The environment named the memory file and set the block rate to 0: the
\* memory method was started with its rate 0, and block and mutex, which
\* the options had enabled, were not.
C21_Witness ==
    /\ StartLoopDone
    /\ Range(NamesOf([ k \in DOMAIN Started |-> p.methods[Started[k]] ])) = { "mem" }
    /\ \E i, j \in DOMAIN p.methods :
          /\ p.methods[i].type = "mem" /\ p.methods[i].rate = 0
          /\ p.methods[j].type = "block" /\ p.methods[j].rate = 0
    /\ \A k \in DOMAIN New(RateSession).methods : Enabled(New(RateSession).methods[k])


(***************************************************************************)
(* C22.  A call of a method's Start that returns an error leaves as many   *)
(* files open as it found, and the method holds no open file.              *)
(***************************************************************************)
C22_Step ==
    (IsCallStep /\ NewCall.op = "Start" /\ NewCall.err # "none") =>
        /\ disk'.open = disk.open
        /\ p'.methods[NewCall.m].f # "open"

C22_FailedStartLeavesNothingOpen == [][C22_Step]_vars


(***************************************************************************)
(* C23.  After SetFlags(f) of the session, every method has its filename   *)
(* flag, and the memory method its rate flag, among the flags of f, so     *)
(* that a parse with f sets them; and when f is not flag.CommandLine, no   *)
(* flag was registered on flag.CommandLine.                                *)
(***************************************************************************)
C23_FlagsOnlyOnCallersFlagSet ==
    /\ ~ fs.global => rt.commandline.formal = {}
    /\ (fs.formal # {} /\ Alive) =>
          \A i \in DOMAIN p.methods :
              /\ \E r \in fs.formal : r.m = i /\ r.field = "filename"
              /\ p.methods[i].type = "Mem" => \E r \in fs.formal : r.m = i /\ r.field = "rate"


\* A bare entry: a registered key with no "=".
BareEntry(e) == e # EmptyString /\ Index(e, "=", 1) = 0 /\ KnownKey(e)

\* The value the session holds for the key n.
Held(n) ==
    LET r == CHOOSE x \in AllFlags : x.name = n
    IN  p.methods[r.m][r.field]

\* The value an entry k=v gives to k.
Given(e) ==
    IF KindOf(EntryName(e)) = "int" THEN IntValue(EntryValue(e)) ELSE EntryValue(e)

(***************************************************************************)
(* C24.  When every entry of the environment value is k=v for a registered *)
(* key k and a value v of its kind, or a bare registered key, Start        *)
(* accepts the value, and every entry k=v that is the last to name k has   *)
(* set k to v, whatever entries stand before it.                           *)
(***************************************************************************)
C24_EntryAffectsOnlyItsKey ==
    LET es == Split(environ)
    IN  ( /\ nstarts > 0 /\ p.envvar # EmptyString
          /\ \A k \in DOMAIN es : GoodEntry(es[k]) \/ BareEntry(es[k]) ) =>
            /\ exit = NoExit
            /\ \A k \in DOMAIN es :
                  ( /\ GoodEntry(es[k])
                    /\ \A j \in k + 1 .. Len(es) : EntryName(es[j]) # EntryName(es[k]) ) =>
                        Held(EntryName(es[k])) = Given(es[k])


(***************************************************************************)
(* C25.  With one caller and no shutdown hook, whatever the order of the   *)
(* Start and Stop calls: every Stop of a method is called by the caller,   *)
(* a method's Stop has been called at most as often as its Start has       *)
(* succeeded, and a method that is not enabled, or whose Start never       *)
(* succeeded, has not been stopped.                                        *)
(***************************************************************************)
C25_StopOnlyAfterSuccessfulStart ==
    /\ watchers = << >>
    /\ \A k \in DOMAIN calls : calls[k].by = 0
    /\ \A i \in DOMAIN p.methods :
          /\ StopsBy(i, 0) <= SuccessfulStarts(i)
          /\ (nstarts > 0 /\ ~ Enabled(p.methods[i])) => ~ Called("Stop", i)
          /\ SuccessfulStarts(i) = 0 => ~ Called("Stop", i)

\* Start, Stop, Start, Stop: one method was started and stopped twice,
\* another failed to start both times and was never stopped.
C25_Witness ==
    /\ StopLoopDone /\ nstarts = 2
    /\ \E i, j \in DOMAIN p.methods :
          /\ SuccessfulStarts(i) = 2 /\ StopsBy(i, 0) = 2
          /\ StartsOf(j) = 2 /\ SuccessfulStarts(j) = 0 /\ ~ Called("Stop", j)

\* The environment left the CPU method without a filename: after Start and
\* Stop it had no call, and the memory method was started and stopped.
C25_NotEnabledNotStopped ==
    /\ StopLoopDone /\ nstarts > 0
    /\ \E i, j \in DOMAIN p.methods :
          /\ ~ Enabled(p.methods[i]) /\ StartsOf(i) = 0 /\ ~ Called("Stop", i)
          /\ StopsBy(j, 0) = 1


(***************************************************************************)
(* C26.  At any time at most one watcher of the session exists, whatever   *)
(* the Start and Stop calls made, a Start after a Stop included.           *)
(***************************************************************************)
C26_AtMostOneWatcher ==
    Cardinality({ w \in DOMAIN watchers : watchers[w].at # "exited" }) <= 1

\* The session is at rest after a Start with the hook, with nothing
\* running: its Stop has returned, or nothing was started.
StoppedWithHook ==
    /\ nstarts > 0 /\ pc.at = "idle" /\ p.running = << >>
    /\ watchers # << >>

(***************************************************************************)
(* C27.  Stop does not cancel the watcher.  An interrupt delivered when    *)
(* the session with the hook has been started and stopped does not end the *)
(* process by the signal: a watcher receives it; the Stop that a watcher   *)
(* begins on an empty p.running walks nothing; and a watcher ends the      *)
(* process with status 0.                                                  *)
(***************************************************************************)
C27_Step ==
    /\ (nints' = nints + 1 /\ StoppedWithHook) =>
          /\ exit' = NoExit
          /\ \E w \in DOMAIN watchers : watchers'[w].at = "signalled"
    /\ \A w \in DOMAIN watchers :
          /\ (watchers[w].at = "signalled" /\ watchers'[w].at = "stop" /\ p.running = << >>) =>
                watchers'[w].snap = << >>
          /\ (watchers[w].at = "stop" /\ watchers'[w].at = "exited") =>
                exit' = [ by |-> "watcher", code |-> ExitOK ]

C27_LateInterruptExitsZero == [][C27_Step]_vars


\* The flags of the session, and the default each was registered with.
OwnFlags == SetFlags(Canon, {}).formal

FlagDefault(r) ==
    IF r.field = "filename" THEN EmptyString
    ELSE CASE Canon.methods[r.m].type = "mem" -> MemRateFlagDefault
           [] Canon.methods[r.m].type = "block" -> BlockRateFlagDefault
           [] Canon.methods[r.m].type = "mutex" -> MutexFractionFlagDefault

\* The keys the entries of the environment value name.
EnvNames == { EntryName(Split(environ)[k]) : k \in DOMAIN Split(environ) }

(***************************************************************************)
(* C28.  After a Start with the environment key, whatever flags the caller *)
(* registered and parsed before: every filename and rate that no entry of  *)
(* the environment value names holds the default of its flag, the empty    *)
(* filename or the rate's default; the configuration of the methods, and   *)
(* the end of the process in config if any, are those of a session built   *)
(* from the options alone under the same environment value; and the        *)
(* methods started are those this configuration enables.                   *)
(***************************************************************************)
C28_EnvAloneDecides ==
    (nstarts > 0 /\ p.envvar # EmptyString) =>
        /\ exit = CanonConfig.exit
        /\ ConfigOf(p) = ConfigOf(CanonConfig.q)
        /\ \A r \in OwnFlags :
              r.name \notin EnvNames => p.methods[r.m][r.field] = FlagDefault(r)
        /\ (StartLoopDone \/ StopLoopDone) =>
              Range(NamesOf([ k \in DOMAIN Started |-> p.methods[Started[k]] ]))
                  = EnabledNames(CanonConfig.q.methods)

\* The caller's flags had set the CPU filename and the block rate; the
\* environment named the block file only: block was started with the
\* rate's default and the CPU method, without a filename, was not.
C28_Witness ==
    /\ StartLoopDone
    /\ fs.parsed /\ fs.err = "none"
    /\ { << "cpuprofile" >>, << "blockprofilerate" >> } \subseteq fs.actual
    /\ environ = KeyValue(<< "blockprofile" >>, << "block.out" >>)
    /\ ConfigOf(p) = << << "cpu", "cpu", EmptyString, 0 >>,
                        << "block", "block", << "block.out" >>, BlockRateFlagDefault >> >>
    /\ NamesOf([ k \in DOMAIN Started |-> p.methods[Started[k]] ]) = << "block" >>


(***************************************************************************)
(* C29.  A Stop of a session with nothing running, before any Start or     *)
(* after another Stop, walks nothing and returns: it calls no method,      *)
(* writes no log line, and leaves the methods, their configuration, the    *)
(* empty running set, the runtime and the files as they were.              *)
(***************************************************************************)
C29_Step ==
    /\ (pc.at = "idle" /\ pc'.at = "stop" /\ p.running = << >>) =>
          /\ pc'.snap = << >>
          /\ UNCHANGED << p, rt, disk, log, calls, stderr, exit >>
    /\ (pc.at = "stop" /\ pc.snap = << >>) =>
          /\ pc'.at = "idle"
          /\ UNCHANGED << p, rt, disk, log, calls, stderr, exit >>
    /\ (pc.at = "stop" /\ pc'.at = "idle") => p'.running = << >>

C29_StopOnEmptyIsNoOp == [][C29_Step]_vars

\* A second Stop with no Start since the first: the last call was a Stop,
\* and this Stop has nothing to walk.
C29_Witness ==
    /\ StopLoopDone
    /\ pc.snap = << >>
    /\ p.running = << >>
    /\ calls # << >>
    /\ LastCall.op = "Stop"

\* A Stop before any Start.
C29_StopBeforeStart == StopLoopDone /\ nstarts = 0 /\ pc.snap = << >>


(***************************************************************************)
(* C30.  When the environment value has an empty entry and every entry     *)
(* before the first empty one is k=v for a registered key k and a value v  *)
(* of its kind, the empty entry is the token "-", Start raises no error,   *)
(* the entries before it have set their keys, and every key they do not    *)
(* name holds its flag default, whatever the entries after it are.         *)
(***************************************************************************)
\* The place of the first empty entry of the environment value, 0 if none.
FirstEmpty == Index(Split(environ), EmptyString, 1)

\* The entries before the first empty one.
Before == SubSeq(Split(environ), 1, FirstEmpty - 1)

StopsAtEmpty ==
    /\ FirstEmpty \in DOMAIN ArgsOf(environ)
    /\ ArgsOf(environ)[FirstEmpty] = << "-" >>
    /\ exit = NoExit
    /\ stderr = << >>
    /\ \A k \in DOMAIN Before :
          (\A j \in k + 1 .. Len(Before) : EntryName(Before[j]) # EntryName(Before[k])) =>
              Held(EntryName(Before[k])) = Given(Before[k])
    /\ \A r \in AllFlags :
          (\A k \in DOMAIN Before : EntryName(Before[k]) # r.name) =>
              Held(r.name) = FlagDefault(r)

C30_BadEntryBefore ==
    /\ environ = Join(<< << "b" >>, EmptyString >>)
    /\ exit = [ by |-> "flag", code |-> 2 ]


(***************************************************************************)
(* C31.  writeprofile, for every category name, path and failure of the    *)
(* file system: an unrecognized category returns the unknown-profile error *)
(* and creates no file; a file that was created is closed before the       *)
(* return, whatever the outcome; a write error is returned whether or not  *)
(* the close fails, and a close error only when the write succeeded.       *)
(***************************************************************************)
WriteNames == PprofProfiles \cup { "bogus" }

WritePaths == { << "mem.out" >>, EmptyString }

WriteFaults == { "none", "create", "write", "close", "writeclose" }

WriteprofileContract(wp(_, _, _, _)) ==
    \A name \in WriteNames, filename \in WritePaths, fl \in WriteFaults :
        LET W0 == World(Mem)
            W == wp(name, filename, W0, fl)
        IN  /\ name \notin PprofProfiles => (W.err = "unknown" /\ W.disk = W0.disk)
            /\ W.disk.open = W0.disk.open
            /\ (name \in PprofProfiles /\ CreateFails(filename, fl)) =>
                  (W.err = "create" /\ W.disk = W0.disk)
            /\ (name \in PprofProfiles /\ ~ CreateFails(filename, fl)) =>
                  /\ \E x \in W.disk.files : x.path = filename
                  /\ W.err = CASE fl \in { "write", "writeclose" } -> "write"
                               [] fl = "close" -> "close"
                               [] OTHER -> "none"

\* A Stop of a method that serializes with writeprofile leaves no file open.
C31_Step ==
    (pc.at = "stop" /\ pc'.at = "stop" /\ pc'.i = pc.i + 1
        /\ p.methods[pc.snap[pc.i]].type \in { "mem", "lookup", "block", "mutex", "Mem" }) =>
            disk'.open = disk.open

C31_WriteprofileClosesOnEveryPath ==
    [][ /\ C31_Step
        /\ WriteprofileContract(writeprofile)
        /\ WriteprofileContract(writeprofileMethodGo) ]_vars

\* The same for the writeprofile of the unexported methods alone.
C31_DeferredClose == [][C31_Step /\ WriteprofileContract(writeprofile)]_vars

\* The contract of the exported methods' writeprofile alone.
C31_CreateFirst == [][WriteprofileContract(writeprofileMethodGo)]_vars

\* A memory Stop whose write failed has returned, and the file is closed.
C31_WriteFailed ==
    /\ calls # << >>
    /\ LastCall.op = "Stop" /\ LastCall.err = "write"
    /\ p.methods[LastCall.m].type = "mem"
    /\ disk.open = 0
    /\ \E x \in disk.files : x.path = p.methods[LastCall.m].filename

\* A memory Stop of the exported method whose write failed has returned,
\* and the file is still open.
C31_LeftOpen ==
    /\ calls # << >>
    /\ LastCall.op = "Stop" /\ LastCall.err = "write"
    /\ p.methods[LastCall.m].type = "Mem"
    /\ disk.open > 0


====
